---------------------------- MODULE Spec2Model ----------------------------
(***************************************************************************)
(* Realtime voice gateway of henryaschke/voice-companion.                  *)
(*                                                                         *)
(* One call session is modelled as the two asyncio tasks that touch the    *)
(* gateway object:                                                         *)
(*   T  the transport task (routers/twilio_webhook.py media_stream_handler)*)
(*      handles the start event (gateway.start, send_initial_greeting),    *)
(*      the media events (receive_audio, local VAD barge-in) and stop;     *)
(*   R  the recognizer task (services/deepgram_stt.py _receive_loop): it   *)
(*      awaits on_transcript, so a whole turn (_process_turn, the LLM      *)
(*      stream, every TTS stream and every chunk send) runs inside R.      *)
(* asyncio is cooperative: a task runs alone until it reaches an await     *)
(* that suspends.  Program counters ending a run segment are the await     *)
(* points of the source; the other program counters are internal, and      *)
(* while one task is at an internal counter the other cannot step.         *)
(*                                                                         *)
(* Time: audio_playing_until is either 0.0 or the expected end of the      *)
(* audio sent last; wall_clock_passed records whether time.time() has      *)
(* reached it.                                                             *)
(*                                                                         *)
(* A TTS stream is the provider's: after cancel() it may end at once or     *)
(* still yield a chunk that was on its way, and it may end at any time.    *)
(*                                                                         *)
(* The recognizer object is taken as constructed with on_transcript wired  *)
(* (realtime_gateway.py:130 also passes on_speech_started, which the       *)
(* DeepgramSTT of deepgram_stt.py:51 neither accepts nor ever calls).      *)
(***************************************************************************)
EXTENDS Integers, Sequences, FiniteSets, TLC

\* ------------------------------------------------------------------ bounds
MaxTurns == 1
MaxSentences == 1
MaxWords == 2
MaxAudioSent == 21
MaxBargeIns == 2
MaxTokens == 3
MaxTokenLen == 2
MaxOverlapWords == 4
MaxTurnsAdded == 8
MaxFramesInARow == 4
MaxTurnsInARow == 2

\* ------------------------------------------------------- program constants
min_audio_before_bargein == 20
vad_threshold == 1200
max_buffer_turns == 6
VadFramesNeeded == 3

\* audio_utils: ULAW_BIAS (0x84) and ULAW_CLIP
ULAW_BIAS == 132
ULAW_CLIP == 32635

\* --------------------------------------------------------------- text model
\* A caller text is a sequence of words (str.split() of the text); the words
\* the recognizer may send are drawn from Words.
Words == {"Und.", "garten"}
FILLER_WORDS == {"und", "aber", "also", "naja", "hmm", "ähm", "öhm", "na", "so", "äh"}

\* str.lower() on one word of Words
Lower(w) == CASE w = "Und." -> "und."
              [] w = "Das" -> "das"
              [] w = "garten" -> "garten"
              [] OTHER -> w

\* str.rstrip('.,!?') on one (lowercased) word
RstripPunct(w) == CASE w = "und." -> "und"
                    [] w = "Und." -> "Und"
                    [] OTHER -> w

LowerAll(ws) == [i \in 1..Len(ws) |-> Lower(ws[i])]

\* utterance.strip().lower().rstrip('.,!?') in FILLER_WORDS: a string with an
\* inner blank is no member of the set, so only one-word texts can match.
IsFiller(utt) == /\ Len(utt) = 1
                 /\ RstripPunct(Lower(utt[1])) \in FILLER_WORDS

Min2(a, b) == IF a < b THEN a ELSE b

Tail_(ws, k) == SubSeq(ws, Len(ws) - k + 1, Len(ws))
Head_(ws, k) == SubSeq(ws, 1, k)

\* overlap lengths 1..3 at which the tail of existing equals the head of new
OverlapLens(existing, new_text) ==
    { k \in 1..Min2(3, Len(new_text)) :
        /\ Len(existing) >= k
        /\ Tail_(LowerAll(existing), k) = Head_(LowerAll(new_text), k) }

\* the shortest overlap, as found by a loop that counts upwards
MinOf(S) == CHOOSE x \in S : \A y \in S : x <= y

MaxOf(S) == CHOOSE x \in S : \A y \in S : y <= x

_remove_overlap(existing, new_text) ==
    IF existing = <<>> \/ new_text = <<>> THEN new_text
    ELSE IF OverlapLens(existing, new_text) = {} THEN new_text
    ELSE SubSeq(new_text, MaxOf(OverlapLens(existing, new_text)) + 1, Len(new_text))


\* ------------------------------------------------------------------- state
VARIABLES
    state,                      \* gateway.state (GatewayState)
    current_turn_id,            \* gateway._current_turn_id
    cancelled,                  \* gateway._cancelled
    audio_sent_count,           \* gateway._audio_sent_count
    consecutive_speech_frames,  \* gateway._consecutive_speech_frames
    audio_playing_until,        \* gateway._audio_playing_until: 0, or 1 = an expected end
    wall_clock_passed,          \* time.time() >= audio_playing_until (TRUE when it is 0.0)
    current_utterance,          \* gateway._current_utterance (sequence of words)
    barge_in_text,              \* gateway._barge_in_text
    full_conversation,          \* gateway.full_conversation
    barge_in_count,             \* gateway.metrics.barge_in_count
    llm_cancelled,              \* llm._cancelled
    short_buffer,               \* llm.context.short_buffer
    tts_cancelled,              \* tts._cancelled
    stt_connected,              \* stt.connected
    wire,                       \* the frame of the websocket.send_text in progress
    clear_pending,              \* a clear frame was written and no turn has started since
    t_pc,                       \* where the transport task stands
    r_pc,                       \* where the recognizer task stands
    my_turn_id,                 \* _process_turn's my_turn_id
    user_text,                  \* _process_turn's user_text
    response_text,              \* _process_turn's response_text is non-empty
    r_gen,                      \* which LLM call runs: "first" or "tool"
    r_result,                   \* what generate_streaming returned
    is_tool_call,               \* generate_streaming's is_tool_call
    full_response,              \* the LLM call's full_response is non-empty
    sentence_buffer,            \* the LLM call's sentence_buffer is non-empty
    sentences_emitted,          \* on_sentence calls made by the LLM calls of this turn
    r_tts_for,                  \* whose synthesize call runs: sentence, remainder, fetching
    full_transcript,            \* media_stream_handler's full_transcript (finally block)
    state_at_stop,              \* history: gateway.state when the receive loop was left
    transport_tags,             \* history: turn ids of the media frames written so far
    stt_audio_sent,             \* the last media frame was handed to stt.ws.send
    ulaw_byte,                  \* audio_utils: the mu-law byte handed to ulaw_to_pcm
    pcm_sample,                 \* audio_utils: the PCM sample ULAW_TO_PCM_TABLE gave for it
    ulaw_encoded,               \* audio_utils: what _pcm_to_ulaw_sample made of that sample
    codec_pc,                   \* audio_utils: how far the conversion has come
    llm_tokens,                 \* generate_streaming: the content tokens streamed so far
    llm_full_response,          \* generate_streaming: full_response, character by character
    llm_sentence_buffer,        \* generate_streaming: sentence_buffer, character by character
    llm_sentences,              \* generate_streaming: the texts passed to on_sentence so far
    llm_pc,                     \* generate_streaming: in the stream loop or past it
    utterance_before,           \* _on_transcript: _current_utterance when a final text arrives
    final_text,                 \* _on_transcript: event.text of that final transcript
    utterance_after,            \* _on_transcript: _current_utterance after the accumulation
    overlap_pc,                 \* _on_transcript: before or after the accumulation
    turns_added,                \* add_turn: every turn handed to add_turn so far, in order
    context_short_buffer,       \* add_turn: llm.context.short_buffer under those calls
    speech_frames_in_a_row      \* receive_audio: the latest frames above the threshold

gw_vars == <<state, current_turn_id, cancelled, audio_sent_count,
             consecutive_speech_frames, audio_playing_until, wall_clock_passed,
             current_utterance, barge_in_text, full_conversation, barge_in_count>>
client_vars == <<llm_cancelled, short_buffer, tts_cancelled, stt_connected>>
io_vars == <<wire, clear_pending>>
turn_vars == <<my_turn_id, user_text, response_text, r_gen, r_result, is_tool_call,
               full_response, sentence_buffer, sentences_emitted, r_tts_for>>
stop_vars == <<full_transcript, state_at_stop>>
call_vars == <<gw_vars, client_vars, io_vars, turn_vars, stop_vars, transport_tags,
               stt_audio_sent, t_pc, r_pc>>
codec_vars == <<ulaw_byte, pcm_sample, ulaw_encoded, codec_pc>>
sentence_vars == <<llm_tokens, llm_full_response, llm_sentence_buffer, llm_sentences, llm_pc>>
overlap_vars == <<utterance_before, final_text, utterance_after, overlap_pc>>
buffer_vars == <<turns_added, context_short_buffer>>
vad_vars == <<speech_frames_in_a_row>>
pure_vars == <<codec_vars, sentence_vars, overlap_vars, buffer_vars, vad_vars>>
vars == <<call_vars, pure_vars>>

\* Program counters at which a task is suspended in an await.
TAwait == {"t_init", "g_post", "g_wait", "g_send", "t_loop", "t_bargein",
           "t_finish", "t_await_r", "t_done"}
RAwait == {"r_off", "r_idle", "r_bargein", "r_bargein_sf", "r_llm", "r_tts_post", "r_tts_wait",
           "r_tts_send", "r_tool", "r_closed", "r_dead"}
TRunning == t_pc \notin TAwait
RRunning == r_pc \notin RAwait

NoFrame == [kind |-> "none", tag |-> 0, cur |-> 0, after_clear |-> FALSE]

\* One entry of full_conversation or of the short buffer.  The content is named by
\* what it is (utterance, greeting, fetching, response) and by the turn of its text.
Entry(role, kind, turn) == [role |-> role, kind |-> kind, turn |-> turn]

GatewayInit ==
    /\ state = "idle"
    /\ current_turn_id = 0
    /\ cancelled = FALSE
    /\ audio_sent_count = 0
    /\ consecutive_speech_frames = 0
    /\ audio_playing_until = 0
    /\ wall_clock_passed = TRUE
    /\ current_utterance = <<>>
    /\ barge_in_text = <<>>
    /\ full_conversation = <<>>
    /\ barge_in_count = 0
    /\ llm_cancelled = FALSE
    /\ short_buffer = <<>>
    /\ tts_cancelled = FALSE
    /\ stt_connected = FALSE
    /\ wire = NoFrame
    /\ clear_pending = FALSE
    /\ t_pc = "t_init"
    /\ r_pc = "r_off"
    /\ my_turn_id = 0
    /\ user_text = <<>>
    /\ response_text = FALSE
    /\ r_gen = "none"
    /\ r_result = "none"
    /\ is_tool_call = FALSE
    /\ full_response = FALSE
    /\ sentence_buffer = FALSE
    /\ sentences_emitted = 0
    /\ r_tts_for = "none"
    /\ full_transcript = <<>>
    /\ state_at_stop = "none"
    /\ transport_tags = {}
    /\ stt_audio_sent = FALSE

\* No conversion of audio_utils is followed.
CodecIdle ==
    /\ ulaw_byte = 0
    /\ pcm_sample = 0
    /\ ulaw_encoded = 0
    /\ codec_pc = "idle"

\* No token stream of generate_streaming is followed character by character.
SentencesIdle ==
    /\ llm_tokens = <<>>
    /\ llm_full_response = <<>>
    /\ llm_sentence_buffer = <<>>
    /\ llm_sentences = <<>>
    /\ llm_pc = "idle"

\* No accumulation of _on_transcript is followed on its own.
OverlapIdle ==
    /\ utterance_before = <<>>
    /\ final_text = <<>>
    /\ utterance_after = <<>>
    /\ overlap_pc = "idle"

\* No sequence of add_turn calls is followed on its own.
BufferIdle ==
    /\ turns_added = <<>>
    /\ context_short_buffer = <<>>

\* The frames of receive_audio are not counted apart from the gateway's counter.
VadIdle == speech_frames_in_a_row = 0

Init ==
    /\ GatewayInit
    /\ CodecIdle
    /\ SentencesIdle
    /\ OverlapIdle
    /\ BufferIdle
    /\ VadIdle

\* ----------------------------------------------------------------- helpers
\* time.time() < self._audio_playing_until
audio_still_playing == audio_playing_until = 1 /\ ~wall_clock_passed

\* can_bargein without the margin of audio sent
can_bargein_no_margin == state = "speaking" \/ audio_still_playing

\* can_bargein of receive_audio, _on_speech_started and _on_transcript
can_bargein ==
    /\ (state = "speaking" \/ audio_still_playing)
    /\ audio_sent_count >= min_audio_before_bargein

\* the callbacks' test on the turn id alone
TurnStale_turn_id_only(turn_id) == current_turn_id # turn_id

\* the callbacks' test "self._cancelled or self._current_turn_id != my_turn_id"
TurnStale(turn_id) == cancelled \/ current_turn_id # turn_id

\* send_audio_to_twilio drops the chunk before the write
TwilioDrops(audio_turn_id) == cancelled \/ audio_turn_id # current_turn_id

\* add_turn without the cut to max_buffer_turns
add_turn_unbounded(buf, e) == Append(buf, e)

\* OpenAILLM.add_turn
add_turn(buf, e) ==
    IF Len(buf) + 1 > max_buffer_turns
    THEN SubSeq(Append(buf, e), Len(buf) + 2 - max_buffer_turns, Len(buf) + 1)
    ELSE Append(buf, e)

\* RealtimeGateway.get_full_transcript: one line per entry, the role renamed
RoleLabel(role) == IF role = "user" THEN "Anrufer" ELSE "Begleiter"
get_full_transcript(conv) ==
    [i \in 1..Len(conv) |-> [label |-> RoleLabel(conv[i].role), kind |-> conv[i].kind,
                             turn |-> conv[i].turn]]

\* RealtimeGateway._set_state: the lock is never held across an await, so the
\* assignment is immediate
_set_state(new_state) == state' = new_state

\* a media frame that carries no turn id of its own
MediaFrame_untagged(audio_turn_id) ==
    [kind |-> "media", tag |-> 0, cur |-> current_turn_id, after_clear |-> clear_pending]

\* websocket.send_text of a media frame (send_audio_to_twilio) and of a clear
\* frame (clear_twilio_audio): the frame is handed to the websocket at the call
MediaFrame(audio_turn_id) ==
    [kind |-> "media", tag |-> audio_turn_id, cur |-> current_turn_id,
     after_clear |-> clear_pending]
ClearFrame == [kind |-> "clear", tag |-> current_turn_id, cur |-> current_turn_id,
               after_clear |-> FALSE]

\* a chunk is written on the cancellation flag alone, whatever its turn id
ChunkWritten_flag_only(turn_id) == ~cancelled

\* a chunk is written on its turn id alone, whatever the cancellation flag
ChunkWritten_turn_only(turn_id) == current_turn_id = turn_id

\* One chunk of a TTS stream reaches the callback chain on_ulaw_chunk ->
\* on_tts_audio / on_audio / on_fetching_audio -> send_audio_to_twilio.
\* TRUE when the chunk is written to the transport.
ChunkWritten(turn_id) == ~TurnStale(turn_id) /\ ~TwilioDrops(turn_id)

\* send_audio_to_twilio after websocket.send_text has returned
AudioSent ==
    /\ audio_sent_count' = audio_sent_count + 1
    /\ audio_playing_until' = 1
    /\ wall_clock_passed' = FALSE

\* _handle_barge_in up to its first await (on_clear_audio -> send_text)
_handle_barge_in_begin ==
    /\ cancelled' = TRUE
    /\ audio_playing_until' = 0
    /\ wall_clock_passed' = TRUE
    /\ wire' = ClearFrame
    /\ clear_pending' = TRUE

\* _handle_barge_in after on_clear_audio has returned
_handle_barge_in_end ==
    /\ llm_cancelled' = TRUE
    /\ tts_cancelled' = TRUE
    /\ current_utterance' = barge_in_text
    /\ barge_in_text' = <<>>
    /\ _set_state("listening")
    /\ wire' = NoFrame

\* _process_turn is left with its my_turn_id still alive, as if the receive
\* loop went on without awaiting it
NoTurn_still_running ==
    /\ my_turn_id' = my_turn_id
    /\ user_text' = <<>>
    /\ response_text' = FALSE
    /\ r_gen' = "none"
    /\ r_result' = "none"
    /\ is_tool_call' = FALSE
    /\ full_response' = FALSE
    /\ sentence_buffer' = FALSE
    /\ sentences_emitted' = 0
    /\ r_tts_for' = "none"

\* the locals of _process_turn and of the LLM call it made, before the call and
\* after its return
NoTurn ==
    /\ my_turn_id' = 0
    /\ user_text' = <<>>
    /\ response_text' = FALSE
    /\ r_gen' = "none"
    /\ r_result' = "none"
    /\ is_tool_call' = FALSE
    /\ full_response' = FALSE
    /\ sentence_buffer' = FALSE
    /\ sentences_emitted' = 0
    /\ r_tts_for' = "none"

\* ---------------------------------------------------------- transport task
\* media_stream_handler, event "start": the gateway is built and started
\* (start(): recognizer connected, its receive loop created, state LISTENING)
transport_start ==
    /\ t_pc = "t_init"
    /\ stt_connected' = TRUE
    /\ r_pc' = "r_idle"
    /\ _set_state("listening")
    /\ t_pc' = "t_greet"
    /\ UNCHANGED <<current_turn_id, cancelled, audio_sent_count, consecutive_speech_frames,
                   audio_playing_until, wall_clock_passed, current_utterance, barge_in_text,
                   full_conversation, barge_in_count, llm_cancelled, short_buffer,
                   tts_cancelled, io_vars, turn_vars>>
    /\ UNCHANGED <<stop_vars, transport_tags, stt_audio_sent>>
    /\ UNCHANGED pure_vars

\* send_initial_greeting up to the await in _speak -> synthesize_streaming
send_initial_greeting ==
    /\ t_pc = "t_greet"
    /\ _set_state("speaking")
    /\ tts_cancelled' = FALSE
    /\ t_pc' = "g_post"
    /\ UNCHANGED <<current_turn_id, cancelled, audio_sent_count, consecutive_speech_frames,
                   audio_playing_until, wall_clock_passed, current_utterance, barge_in_text,
                   full_conversation, barge_in_count, llm_cancelled, short_buffer,
                   stt_connected, io_vars, turn_vars, r_pc>>
    /\ UNCHANGED <<stop_vars, transport_tags, stt_audio_sent>>
    /\ UNCHANGED pure_vars

\* synthesize_streaming of the greeting: the HTTP response arrives
greeting_tts_response ==
    /\ t_pc = "g_post"
    /\ ~RRunning
    /\ \E ok \in BOOLEAN : t_pc' = IF ok THEN "g_wait" ELSE "g_done"
    /\ UNCHANGED <<gw_vars, client_vars, io_vars, turn_vars, r_pc>>
    /\ UNCHANGED <<stop_vars, transport_tags, stt_audio_sent>>
    /\ UNCHANGED pure_vars

\* the greeting's stream yields a chunk; _speak captured my_turn_id = 0
greeting_tts_chunk ==
    /\ t_pc = "g_wait"
    /\ ~RRunning
    /\ audio_sent_count < MaxAudioSent
    /\ IF tts_cancelled
       THEN /\ t_pc' = "g_done"
            /\ UNCHANGED <<wire, transport_tags>>
       ELSE IF ChunkWritten(0)
       THEN /\ wire' = MediaFrame(0)
            /\ transport_tags' = transport_tags \cup {0}
            /\ t_pc' = "g_send"
       ELSE /\ t_pc' = "g_wait"
            /\ UNCHANGED <<wire, transport_tags>>
    /\ UNCHANGED <<gw_vars, client_vars, clear_pending, turn_vars, r_pc>>
    /\ UNCHANGED <<stop_vars, stt_audio_sent>>
    /\ UNCHANGED pure_vars

\* websocket.send_text of a greeting chunk returns (or raises, which is caught)
greeting_send_done ==
    /\ t_pc = "g_send"
    /\ ~RRunning
    /\ \/ AudioSent
       \/ UNCHANGED <<audio_sent_count, audio_playing_until, wall_clock_passed>>
    /\ wire' = NoFrame
    /\ t_pc' = "g_wait"
    /\ UNCHANGED <<state, current_turn_id, cancelled, consecutive_speech_frames,
                   current_utterance, barge_in_text, full_conversation, barge_in_count,
                   client_vars, clear_pending, turn_vars, r_pc>>
    /\ UNCHANGED <<stop_vars, transport_tags, stt_audio_sent>>
    /\ UNCHANGED pure_vars

\* the greeting's stream ends (end of body, error, or closed by cancel)
greeting_tts_end ==
    /\ t_pc = "g_wait"
    /\ ~RRunning
    /\ t_pc' = "g_done"
    /\ UNCHANGED <<gw_vars, client_vars, io_vars, turn_vars, r_pc>>
    /\ UNCHANGED <<stop_vars, transport_tags, stt_audio_sent>>
    /\ UNCHANGED pure_vars

\* _speak after synthesize_to_ulaw, then the rest of send_initial_greeting
greeting_done ==
    /\ t_pc = "g_done"
    /\ full_conversation' = Append(full_conversation, Entry("assistant", "greeting", 0))
    /\ short_buffer' = add_turn(short_buffer, Entry("assistant", "greeting", 0))
    /\ _set_state("listening")
    /\ t_pc' = "t_loop"
    /\ UNCHANGED <<current_turn_id, cancelled, audio_sent_count, consecutive_speech_frames,
                   audio_playing_until, wall_clock_passed, current_utterance, barge_in_text,
                   barge_in_count, llm_cancelled, tts_cancelled, stt_connected,
                   io_vars, turn_vars, r_pc>>
    /\ UNCHANGED <<stop_vars, transport_tags, stt_audio_sent>>
    /\ UNCHANGED pure_vars

\* every frame is handed to the recognizer, connected or not
ForwardedToSTT_always == TRUE

\* DeepgramSTT.send_audio: "if not self.connected or not self.ws: return",
\* otherwise the frame is handed to ws.send
ForwardedToSTT == stt_connected

\* the RMS values a frame may have: silence, the threshold itself, above it
FrameEnergies == {0, vad_threshold, vad_threshold + 1}

\* receive_audio on a frame whose RMS is energy
receive_audio_frame(energy) ==
    /\ t_pc = "t_loop"
    /\ ~RRunning
    /\ IF ~can_bargein
       THEN UNCHANGED <<gw_vars, io_vars, t_pc>>
       ELSE IF energy > vad_threshold
       THEN IF consecutive_speech_frames + 1 >= VadFramesNeeded
            THEN /\ barge_in_count < MaxBargeIns
                 /\ consecutive_speech_frames' = consecutive_speech_frames + 1
                 /\ barge_in_count' = barge_in_count + 1
                 /\ _handle_barge_in_begin
                 /\ t_pc' = "t_bargein"
                 /\ UNCHANGED <<state, current_turn_id, audio_sent_count,
                                current_utterance, barge_in_text, full_conversation>>
            ELSE /\ consecutive_speech_frames' = consecutive_speech_frames + 1
                 /\ UNCHANGED <<state, current_turn_id, cancelled, audio_sent_count,
                                audio_playing_until, wall_clock_passed, current_utterance,
                                barge_in_text, full_conversation, barge_in_count,
                                io_vars, t_pc>>
       ELSE /\ consecutive_speech_frames' = 0
            /\ UNCHANGED <<state, current_turn_id, cancelled, audio_sent_count,
                           audio_playing_until, wall_clock_passed, current_utterance,
                           barge_in_text, full_conversation, barge_in_count,
                           io_vars, t_pc>>
    /\ UNCHANGED <<client_vars, turn_vars, r_pc>>
    /\ UNCHANGED <<stop_vars, transport_tags>>
    /\ stt_audio_sent' = IF t_pc' = "t_bargein" THEN stt_audio_sent ELSE ForwardedToSTT

\* event "media" -> receive_audio; energy is the frame's RMS
receive_audio ==
    /\ \E energy \in FrameEnergies : receive_audio_frame(energy)
    /\ UNCHANGED pure_vars

\* receive_audio resumes in _handle_barge_in after the clear frame was sent
receive_audio_resumes ==
    /\ t_pc = "t_bargein"
    /\ ~RRunning
    /\ _handle_barge_in_end
    /\ consecutive_speech_frames' = 0
    /\ t_pc' = "t_loop"
    /\ UNCHANGED <<current_turn_id, cancelled, audio_sent_count, audio_playing_until,
                   wall_clock_passed, full_conversation, barge_in_count, short_buffer,
                   stt_connected, clear_pending, turn_vars, r_pc>>
    /\ UNCHANGED <<stop_vars, transport_tags>>
    /\ stt_audio_sent' = ForwardedToSTT

\* the handler returns to receive_audio, which resets the counter and hands the
\* frame to the recognizer
receive_audio_barge_in_end ==
    /\ receive_audio_resumes
    /\ UNCHANGED pure_vars

\* event "stop" (or a disconnect, or an exception of the loop): the finally block
\* takes the transcript and enters gateway.stop(), which awaits finish_stream
transport_stop ==
    /\ t_pc = "t_loop"
    /\ ~RRunning
    /\ full_transcript' = get_full_transcript(full_conversation)
    /\ state_at_stop' = state
    /\ t_pc' = "t_finish"
    /\ UNCHANGED <<gw_vars, client_vars, wire, clear_pending, turn_vars, transport_tags, stt_audio_sent, r_pc>>
    /\ UNCHANGED pure_vars

\* A malformed message arrives: json.loads raises on text that is no JSON, or
\* receive_audio raises in base64_ulaw_to_pcm (base64.b64decode, first statement)
\* on a media payload that is no valid base64
receive_malformed ==
    /\ t_pc = "t_loop"
    /\ ~RRunning
    /\ \E malformed \in {"json", "base64"} : t_pc' = "t_malformed"
    /\ UNCHANGED <<gw_vars, client_vars, io_vars, turn_vars, r_pc>>
    /\ UNCHANGED <<stop_vars, transport_tags, stt_audio_sent>>
    /\ UNCHANGED pure_vars

\* the exception reaches "except Exception ... break" of the receive loop: the
\* finally block takes the transcript and enters gateway.stop()
malformed_breaks_loop ==
    /\ t_pc = "t_malformed"
    /\ full_transcript' = get_full_transcript(full_conversation)
    /\ state_at_stop' = state
    /\ t_pc' = "t_finish"
    /\ UNCHANGED <<gw_vars, client_vars, io_vars, turn_vars, transport_tags, stt_audio_sent, r_pc>>
    /\ UNCHANGED pure_vars

\* Program counters of R inside the try block of synthesize_streaming, whose
\* "except asyncio.CancelledError" swallows the cancellation of the task
RInTts == {"r_tts_post", "r_tts_wait", "r_tts_send"}

\* stop(): stt.disconnect() cancels the receive task and awaits it
stop_disconnect ==
    /\ t_pc = "t_finish"
    /\ ~RRunning
    /\ stt_connected' = FALSE
    /\ r_pc' = IF r_pc \in RInTts THEN "r_tts_ret"
               ELSE IF r_pc \in {"r_closed", "r_off"} THEN r_pc
               ELSE "r_dead"
    /\ IF r_pc' = "r_dead" THEN NoTurn ELSE UNCHANGED turn_vars
    /\ wire' = NoFrame
    /\ t_pc' = "t_await_r"
    /\ UNCHANGED <<gw_vars, llm_cancelled, short_buffer, tts_cancelled, clear_pending>>
    /\ UNCHANGED <<stop_vars, transport_tags, stt_audio_sent>>
    /\ UNCHANGED pure_vars

\* stop() goes on once the receive task has ended: clients closed, summary logged
stop_done ==
    /\ t_pc = "t_await_r"
    /\ r_pc \in {"r_closed", "r_dead"}
    /\ t_pc' = "t_done"
    /\ UNCHANGED <<gw_vars, client_vars, io_vars, turn_vars, r_pc>>
    /\ UNCHANGED <<stop_vars, transport_tags, stt_audio_sent>>
    /\ UNCHANGED pure_vars

\* the wall clock reaches audio_playing_until
clock_passes ==
    /\ audio_playing_until = 1
    /\ ~wall_clock_passed
    /\ ~TRunning /\ ~RRunning
    /\ wall_clock_passed' = TRUE
    /\ UNCHANGED <<state, current_turn_id, cancelled, audio_sent_count,
                   consecutive_speech_frames, audio_playing_until, current_utterance,
                   barge_in_text, full_conversation, barge_in_count,
                   client_vars, io_vars, turn_vars, t_pc, r_pc>>
    /\ UNCHANGED <<stop_vars, transport_tags, stt_audio_sent>>
    /\ UNCHANGED pure_vars

\* --------------------------------------------------------- recognizer task
\* The texts a Results message may carry (stripped, non-empty) and the text of
\* the event synthesized for UtteranceEnd
Texts == { <<w>> : w \in Words }

\* _on_transcript's accumulation of a final text (lines 356-375)
Accumulate(utt, text, is_final) ==
    IF text = <<>> \/ ~is_final THEN utt
    ELSE IF utt # <<>> THEN utt \o _remove_overlap(utt, text)
    ELSE text

\* the test for LISTENING left out
NotListening_ignored == FALSE

\* "if current_state != GatewayState.LISTENING: return"
NotListening == state # "listening"

\* the end-of-turn test without the filler check
EndOfTurn_any_text(utt) == utt # <<>>

\* the end-of-turn test without the test for an empty utterance
EndOfTurn_filler_only(utt) == ~IsFiller(utt)

\* the end-of-turn test of a speech_final event: the accumulated utterance is
\* non-empty and is no single filler word
EndOfTurn(utt) == utt # <<>> /\ ~IsFiller(utt)

\* RealtimeGateway._on_transcript, up to its first await, its end-of-turn check
\* or its return.  In the barge-in branch the program counter keeps the event's
\* speech_final, as the suspended call does.
_on_transcript_upto(text, is_final, speech_final, turns) ==
    IF can_bargein /\ text # <<>>
    THEN /\ barge_in_count < MaxBargeIns
         /\ barge_in_count' = barge_in_count + 1
         /\ barge_in_text' = text
         /\ _handle_barge_in_begin
         /\ r_pc' = IF speech_final THEN "r_bargein_sf" ELSE "r_bargein"
         /\ UNCHANGED <<state, current_turn_id, audio_sent_count, consecutive_speech_frames,
                        current_utterance, full_conversation>>
    ELSE IF NotListening
    THEN UNCHANGED <<gw_vars, wire, clear_pending, r_pc>>
    ELSE /\ current_turn_id < turns
         /\ Len(Accumulate(current_utterance, text, is_final)) <= MaxWords
         /\ current_utterance' = Accumulate(current_utterance, text, is_final)
         /\ r_pc' = IF speech_final THEN "r_speech_final" ELSE "r_idle"
         /\ UNCHANGED <<state, current_turn_id, cancelled, audio_sent_count,
                        consecutive_speech_frames, audio_playing_until, wall_clock_passed,
                        barge_in_text, full_conversation, barge_in_count, wire, clear_pending>>

\* _on_transcript in a call that is followed for MaxTurns turns
_on_transcript(text, is_final, speech_final) ==
    _on_transcript_upto(text, is_final, speech_final, MaxTurns)

\* DeepgramSTT._handle_message, type "Results" with a non-empty transcript
stt_results ==
    /\ r_pc = "r_idle"
    /\ ~TRunning
    /\ \E text \in Texts, is_final \in BOOLEAN, speech_final \in BOOLEAN :
          _on_transcript(text, is_final, speech_final)
    /\ UNCHANGED <<llm_cancelled, short_buffer, tts_cancelled, stt_connected, turn_vars, t_pc>>
    /\ UNCHANGED <<stop_vars, transport_tags, stt_audio_sent>>
    /\ UNCHANGED pure_vars

\* DeepgramSTT._handle_message, type "UtteranceEnd": a synthetic final event
stt_utterance_end ==
    /\ r_pc = "r_idle"
    /\ ~TRunning
    /\ _on_transcript(<<>>, TRUE, TRUE)
    /\ UNCHANGED <<llm_cancelled, short_buffer, tts_cancelled, stt_connected, turn_vars, t_pc>>
    /\ UNCHANGED <<stop_vars, transport_tags, stt_audio_sent>>
    /\ UNCHANGED pure_vars

\* _on_transcript lines 377-398: a speech_final event ends the turn of the caller
\* unless the accumulated utterance is empty or a single filler word
end_of_turn_check ==
    /\ r_pc = "r_speech_final"
    /\ r_pc' = IF EndOfTurn(current_utterance) THEN "r_process_turn" ELSE "r_idle"
    /\ UNCHANGED <<gw_vars, client_vars, io_vars, turn_vars, t_pc>>
    /\ UNCHANGED <<stop_vars, transport_tags, stt_audio_sent>>
    /\ UNCHANGED pure_vars

\* DeepgramSTT._handle_message receives a message of type "SpeechStarted"
stt_speech_started ==
    /\ r_pc = "r_idle"
    /\ ~TRunning
    /\ r_pc' = "r_speech_started"
    /\ UNCHANGED <<gw_vars, client_vars, io_vars, turn_vars, t_pc>>
    /\ UNCHANGED <<stop_vars, transport_tags, stt_audio_sent>>
    /\ UNCHANGED pure_vars

\* the branch for "SpeechStarted" (lines 223-224) logs the message and returns
speech_started_logged ==
    /\ r_pc = "r_speech_started"
    /\ r_pc' = "r_idle"
    /\ UNCHANGED <<gw_vars, client_vars, io_vars, turn_vars, t_pc>>
    /\ UNCHANGED <<stop_vars, transport_tags, stt_audio_sent>>
    /\ UNCHANGED pure_vars

\* DeepgramSTT._receive_loop ends: the connection is closed or fails
stt_connection_lost ==
    /\ r_pc = "r_idle"
    /\ ~TRunning
    /\ stt_connected' = FALSE
    /\ r_pc' = "r_closed"
    /\ UNCHANGED <<gw_vars, llm_cancelled, short_buffer, tts_cancelled,
                   io_vars, turn_vars, t_pc>>
    /\ UNCHANGED <<stop_vars, transport_tags, stt_audio_sent>>
    /\ UNCHANGED pure_vars

\* _on_transcript resumes in _handle_barge_in after the clear frame was sent
on_transcript_barge_in_end ==
    /\ r_pc \in {"r_bargein", "r_bargein_sf"}
    /\ ~TRunning
    /\ _handle_barge_in_end
    /\ r_pc' = "r_idle"
    /\ UNCHANGED <<current_turn_id, cancelled, audio_sent_count, consecutive_speech_frames,
                   audio_playing_until, wall_clock_passed, full_conversation, barge_in_count,
                   short_buffer, stt_connected, clear_pending, turn_vars, t_pc>>
    /\ UNCHANGED <<stop_vars, transport_tags, stt_audio_sent>>
    /\ UNCHANGED pure_vars

\* OpenAILLM._build_messages: the system message, the context preamble as a
\* user message with the assistant's acknowledgment (_build_context_preamble
\* always yields its identity section, so the preamble is never blank), the
\* turns of the short buffer, then user_text as a user message
_build_messages(buffer, user_message) ==
    <<Entry("system", "persona", 0),
      Entry("user", "preamble", 0),
      Entry("assistant", "acknowledgment", 0)>> \o buffer \o <<user_message>>

\* the turn id incremented twice
NextTurnId_twice == current_turn_id + 2

\* "self._current_turn_id += 1"
NextTurnId == current_turn_id + 1

\* _process_turn lines 402-426 and generate_streaming up to the await of the
\* completion stream
_process_turn ==
    /\ r_pc = "r_process_turn"
    /\ current_utterance # <<>>
    /\ current_turn_id' = NextTurnId
    /\ my_turn_id' = current_turn_id'
    /\ cancelled' = FALSE
    /\ audio_sent_count' = 0
    /\ consecutive_speech_frames' = 0
    /\ audio_playing_until' = 0
    /\ wall_clock_passed' = TRUE
    /\ user_text' = current_utterance
    /\ current_utterance' = <<>>
    /\ full_conversation' =
          Append(full_conversation, Entry("user", "utterance", current_turn_id'))
    /\ short_buffer' =
          add_turn(short_buffer, Entry("user", "utterance", current_turn_id'))
    /\ _set_state("thinking")
    /\ response_text' = FALSE
    /\ llm_cancelled' = FALSE
    /\ r_gen' = "first"
    /\ r_result' = "none"
    /\ is_tool_call' = FALSE
    /\ full_response' = FALSE
    /\ sentence_buffer' = FALSE
    /\ sentences_emitted' = 0
    /\ r_tts_for' = "none"
    /\ clear_pending' = FALSE
    /\ r_pc' = "r_llm"
    /\ UNCHANGED <<barge_in_text, barge_in_count, tts_cancelled, stt_connected, wire, t_pc>>
    /\ UNCHANGED <<stop_vars, transport_tags, stt_audio_sent>>
    /\ UNCHANGED pure_vars

\* the completion stream yields a chunk (generate_streaming lines 381-413,
\* generate_with_tool_result lines 529-548)
llm_chunk ==
    /\ r_pc = "r_llm"
    /\ ~TRunning
    /\ IF llm_cancelled
       THEN /\ r_pc' = "r_stream_end"
            /\ UNCHANGED <<is_tool_call, full_response, sentence_buffer, sentences_emitted,
                           r_tts_for>>
       ELSE \E delta \in {"tool", "partial", "sentence"} :
            CASE delta = "tool" ->
                    /\ r_gen = "first"
                    /\ is_tool_call' = TRUE
                    /\ r_pc' = "r_llm"
                    /\ UNCHANGED <<full_response, sentence_buffer, sentences_emitted, r_tts_for>>
              [] delta = "partial" ->
                    /\ full_response' = TRUE
                    /\ sentence_buffer' = TRUE
                    /\ r_pc' = "r_llm"
                    /\ UNCHANGED <<is_tool_call, sentences_emitted, r_tts_for>>
              [] delta = "sentence" ->
                    /\ sentences_emitted < MaxSentences
                    /\ full_response' = TRUE
                    /\ sentence_buffer' = FALSE
                    /\ sentences_emitted' = sentences_emitted + 1
                    /\ r_tts_for' = "sentence"
                    /\ r_pc' = "r_on_sentence"
                    /\ UNCHANGED is_tool_call
    /\ UNCHANGED <<gw_vars, client_vars, io_vars, my_turn_id, user_text, response_text,
                   r_gen, r_result, t_pc>>
    /\ UNCHANGED <<stop_vars, transport_tags, stt_audio_sent>>
    /\ UNCHANGED pure_vars

\* the completion stream is exhausted
llm_stream_end ==
    /\ r_pc = "r_llm"
    /\ ~TRunning
    /\ r_pc' = "r_stream_end"
    /\ UNCHANGED <<gw_vars, client_vars, io_vars, turn_vars, t_pc>>
    /\ UNCHANGED <<stop_vars, transport_tags, stt_audio_sent>>
    /\ UNCHANGED pure_vars

\* the LLM call raises: "except Exception ... return ''"
llm_error ==
    /\ r_pc = "r_llm"
    /\ ~TRunning
    /\ r_result' = "text"
    /\ r_pc' = "r_after_generate"
    /\ UNCHANGED <<gw_vars, client_vars, io_vars, my_turn_id, user_text, response_text,
                   r_gen, is_tool_call, full_response, sentence_buffer, sentences_emitted,
                   r_tts_for, t_pc>>
    /\ UNCHANGED <<stop_vars, transport_tags, stt_audio_sent>>
    /\ UNCHANGED pure_vars

\* after the stream loop: a ToolCallRequest is returned, or the remainder of
\* the sentence buffer is emitted (lines 415-429, 550-551)
llm_after_stream ==
    /\ r_pc = "r_stream_end"
    /\ IF r_gen = "first" /\ is_tool_call
       THEN /\ r_result' = "tool"
            /\ r_pc' = "r_after_generate"
            /\ UNCHANGED <<sentences_emitted, r_tts_for>>
       ELSE IF sentence_buffer /\ ~llm_cancelled
       THEN /\ sentences_emitted' = sentences_emitted + 1
            /\ r_tts_for' = "remainder"
            /\ r_pc' = "r_on_sentence"
            /\ UNCHANGED r_result
       ELSE /\ r_pc' = "r_llm_finish"
            /\ UNCHANGED <<r_result, sentences_emitted, r_tts_for>>
    /\ UNCHANGED <<gw_vars, client_vars, io_vars, my_turn_id, user_text, response_text,
                   r_gen, is_tool_call, full_response, sentence_buffer, t_pc>>
    /\ UNCHANGED <<stop_vars, transport_tags, stt_audio_sent>>
    /\ UNCHANGED pure_vars

\* the response is recorded whether or not the call was cancelled
RecordsResponse_despite_cancel == full_response

\* "if full_response and not self._cancelled:"
RecordsResponse == full_response /\ ~llm_cancelled

\* the LLM call records its response and returns it (lines 431-441, 553-559)
llm_finish ==
    /\ r_pc = "r_llm_finish"
    /\ short_buffer' =
          IF RecordsResponse
          THEN add_turn(short_buffer, Entry("assistant", "response", my_turn_id))
          ELSE short_buffer
    /\ r_result' = "text"
    /\ r_pc' = "r_after_generate"
    /\ UNCHANGED <<gw_vars, llm_cancelled, tts_cancelled, stt_connected, io_vars,
                   my_turn_id, user_text, response_text, r_gen, is_tool_call, full_response,
                   sentence_buffer, sentences_emitted, r_tts_for, t_pc>>
    /\ UNCHANGED <<stop_vars, transport_tags, stt_audio_sent>>
    /\ UNCHANGED pure_vars

\* the LLM call gives up after on_sentence has returned
AfterSentence_gives_up == "r_after_generate"

\* the LLM call goes back into the stream loop after every on_sentence
AfterSentence_back_to_stream == "r_llm"

\* where the LLM call goes on after on_sentence has returned
AfterSentence == IF r_tts_for = "remainder" THEN "r_llm_finish" ELSE "r_llm"

\* _process_turn.on_sentence up to the await in synthesize_streaming
on_sentence ==
    /\ r_pc = "r_on_sentence"
    /\ IF TurnStale(my_turn_id)
       THEN /\ r_pc' = AfterSentence
            /\ UNCHANGED <<state, response_text, tts_cancelled>>
       ELSE /\ response_text' = TRUE
            /\ _set_state("speaking")
            /\ tts_cancelled' = FALSE
            /\ r_pc' = "r_tts_post"
    /\ UNCHANGED <<current_turn_id, cancelled, audio_sent_count, consecutive_speech_frames,
                   audio_playing_until, wall_clock_passed, current_utterance, barge_in_text,
                   full_conversation, barge_in_count, llm_cancelled, short_buffer,
                   stt_connected, io_vars, my_turn_id, user_text, r_gen, r_result,
                   is_tool_call, full_response, sentence_buffer, sentences_emitted,
                   r_tts_for, t_pc>>
    /\ UNCHANGED <<stop_vars, transport_tags, stt_audio_sent>>
    /\ UNCHANGED pure_vars

\* synthesize_streaming in a turn: the HTTP response arrives (status 200 or not)
tts_response ==
    /\ r_pc = "r_tts_post"
    /\ ~TRunning
    /\ \E ok \in BOOLEAN : r_pc' = IF ok THEN "r_tts_wait" ELSE "r_tts_ret"
    /\ UNCHANGED <<gw_vars, client_vars, io_vars, turn_vars, t_pc>>
    /\ UNCHANGED <<stop_vars, transport_tags, stt_audio_sent>>
    /\ UNCHANGED pure_vars

\* the stream yields a chunk: synthesize_streaming lines 234-244, then
\* on_tts_audio / on_fetching_audio and send_audio_to_twilio up to send_text
tts_chunk ==
    /\ r_pc = "r_tts_wait"
    /\ ~TRunning
    /\ audio_sent_count < MaxAudioSent
    /\ IF tts_cancelled
       THEN /\ r_pc' = "r_tts_ret"
            /\ UNCHANGED <<wire, transport_tags>>
       ELSE IF ChunkWritten(my_turn_id)
       THEN /\ wire' = MediaFrame(my_turn_id)
            /\ transport_tags' = transport_tags \cup {my_turn_id}
            /\ r_pc' = "r_tts_send"
       ELSE /\ r_pc' = "r_tts_wait"
            /\ UNCHANGED <<wire, transport_tags>>
    /\ UNCHANGED <<gw_vars, client_vars, clear_pending, turn_vars, t_pc>>
    /\ UNCHANGED <<stop_vars, stt_audio_sent>>
    /\ UNCHANGED pure_vars

\* websocket.send_text of a chunk returns (or raises, which is caught)
send_audio_done ==
    /\ r_pc = "r_tts_send"
    /\ ~TRunning
    /\ \/ AudioSent
       \/ UNCHANGED <<audio_sent_count, audio_playing_until, wall_clock_passed>>
    /\ wire' = NoFrame
    /\ r_pc' = "r_tts_wait"
    /\ UNCHANGED <<state, current_turn_id, cancelled, consecutive_speech_frames,
                   current_utterance, barge_in_text, full_conversation, barge_in_count,
                   client_vars, clear_pending, turn_vars, t_pc>>
    /\ UNCHANGED <<stop_vars, transport_tags, stt_audio_sent>>
    /\ UNCHANGED pure_vars

\* the stream ends (end of body, error mid-stream, or closed by cancel)
tts_end ==
    /\ r_pc = "r_tts_wait"
    /\ ~TRunning
    /\ r_pc' = "r_tts_ret"
    /\ UNCHANGED <<gw_vars, client_vars, io_vars, turn_vars, t_pc>>
    /\ UNCHANGED <<stop_vars, transport_tags, stt_audio_sent>>
    /\ UNCHANGED pure_vars

\* The tool calls the model can ask for: ToolCallRequest.tool_name is any name
\* the model streamed, ToolCallRequest.arguments is json.loads of the streamed
\* arguments text, an object or any other JSON value.
ToolNames == {"get_news", "other"}
ToolArguments == {"object", "not_object"}

\* What the HTTP fetch of get_news can come to.
FetchOutcomes == {"ok", "timeout", "http_error", "parse_error"}

\* ExternalTools.get_news: every path out of its try block returns a string
get_news(fetch) == IF fetch = "ok" THEN "news" ELSE "failure_message"

\* ExternalTools.execute_tool up to its first await: arguments.get(...) is
\* evaluated before get_news is entered, outside every try block
execute_tool(tool_name, arguments) ==
    IF tool_name = "get_news"
    THEN IF arguments = "object" THEN "awaits_get_news" ELSE "raises"
    ELSE "unknown_tool_message"

\* execute_tool raised: "except Exception" of _process_turn
ToolRaises ==
    /\ _set_state("listening")
    /\ r_pc' = "r_idle"
    /\ NoTurn
    /\ UNCHANGED llm_cancelled

\* execute_tool returned a string: _handle_tool_call lines 575-588 and
\* generate_with_tool_result up to the await of the completion stream
ToolResult ==
    /\ IF TurnStale(my_turn_id)
       THEN /\ r_result' = "text"
            /\ r_pc' = "r_after_generate"
            /\ UNCHANGED <<llm_cancelled, r_gen, full_response, sentence_buffer>>
       ELSE /\ llm_cancelled' = FALSE
            /\ r_gen' = "tool"
            /\ full_response' = FALSE
            /\ sentence_buffer' = FALSE
            /\ r_result' = "none"
            /\ r_pc' = "r_llm"
    /\ UNCHANGED <<state, my_turn_id, user_text, response_text, is_tool_call,
                   sentences_emitted, r_tts_for>>

\* synthesize_to_ulaw returns: to the LLM call (a sentence), or to
\* _handle_tool_call lines 564-573 (the fetching phrase), which calls execute_tool
tts_return ==
    /\ r_pc = "r_tts_ret"
    /\ IF r_tts_for = "fetching"
       THEN /\ full_conversation' =
                  Append(full_conversation, Entry("assistant", "fetching", my_turn_id))
            /\ \E tool_name \in ToolNames, arguments \in ToolArguments :
                  LET called == execute_tool(tool_name, arguments) IN
                  IF called = "awaits_get_news"
                  THEN /\ r_pc' = "r_tool"
                       /\ UNCHANGED <<state, llm_cancelled, turn_vars>>
                  ELSE IF called = "raises"
                  THEN ToolRaises
                  ELSE ToolResult
       ELSE /\ r_pc' = AfterSentence
            /\ UNCHANGED <<full_conversation, state, llm_cancelled, turn_vars>>
    /\ UNCHANGED <<current_turn_id, cancelled, audio_sent_count,
                   consecutive_speech_frames, audio_playing_until, wall_clock_passed,
                   current_utterance, barge_in_text, barge_in_count, short_buffer,
                   tts_cancelled, stt_connected, io_vars, t_pc>>
    /\ UNCHANGED <<stop_vars, transport_tags, stt_audio_sent>>
    /\ UNCHANGED pure_vars

\* the turn is completed without the return to LISTENING
CompleteTurn_keeps_state ==
    /\ full_conversation' =
          IF ~TurnStale(my_turn_id) /\ response_text
          THEN Append(full_conversation, Entry("assistant", "response", my_turn_id))
          ELSE full_conversation
    /\ UNCHANGED state
    /\ r_pc' = "r_idle"
    /\ NoTurn
    /\ UNCHANGED tts_cancelled

\* _process_turn lines 499-513: the turn is completed
CompleteTurn ==
    /\ full_conversation' =
          IF ~TurnStale(my_turn_id) /\ response_text
          THEN Append(full_conversation, Entry("assistant", "response", my_turn_id))
          ELSE full_conversation
    /\ _set_state("listening")
    /\ r_pc' = "r_idle"
    /\ NoTurn
    /\ UNCHANGED tts_cancelled

\* _process_turn after the LLM call (lines 475-513), with _handle_tool_call
\* lines 536-562 when a ToolCallRequest came back
after_generate ==
    /\ r_pc = "r_after_generate"
    /\ IF TurnStale(my_turn_id)
       THEN /\ _set_state("listening")
            /\ r_pc' = "r_idle"
            /\ NoTurn
            /\ UNCHANGED <<full_conversation, tts_cancelled>>
       ELSE IF r_result = "tool"
       THEN /\ _set_state("speaking")
            /\ tts_cancelled' = FALSE
            /\ r_tts_for' = "fetching"
            /\ r_pc' = "r_tts_post"
            /\ UNCHANGED <<full_conversation, my_turn_id, user_text, response_text, r_gen,
                           r_result, is_tool_call, full_response, sentence_buffer,
                           sentences_emitted>>
       ELSE CompleteTurn
    /\ UNCHANGED <<current_turn_id, cancelled, audio_sent_count, consecutive_speech_frames,
                   audio_playing_until, wall_clock_passed, current_utterance, barge_in_text,
                   barge_in_count, llm_cancelled, short_buffer, stt_connected, io_vars, t_pc>>
    /\ UNCHANGED <<stop_vars, transport_tags, stt_audio_sent>>
    /\ UNCHANGED pure_vars

\* get_news returns its string to execute_tool and to _handle_tool_call
tool_done ==
    /\ r_pc = "r_tool"
    /\ ~TRunning
    /\ \E fetch \in FetchOutcomes :
          get_news(fetch) \in {"news", "failure_message"} /\ ToolResult
    /\ UNCHANGED <<current_turn_id, cancelled, audio_sent_count,
                   consecutive_speech_frames, audio_playing_until, wall_clock_passed,
                   current_utterance, barge_in_text, full_conversation, barge_in_count,
                   short_buffer, tts_cancelled, stt_connected, io_vars, t_pc>>
    /\ UNCHANGED <<stop_vars, transport_tags, stt_audio_sent>>
    /\ UNCHANGED pure_vars

Next ==
    \/ transport_start
    \/ send_initial_greeting
    \/ greeting_tts_response
    \/ greeting_tts_chunk
    \/ greeting_send_done
    \/ greeting_tts_end
    \/ greeting_done
    \/ receive_audio
    \/ receive_audio_barge_in_end
    \/ transport_stop
    \/ receive_malformed
    \/ malformed_breaks_loop
    \/ stop_disconnect
    \/ stop_done
    \/ clock_passes
    \/ stt_results
    \/ stt_utterance_end
    \/ end_of_turn_check
    \/ stt_speech_started
    \/ speech_started_logged
    \/ stt_connection_lost
    \/ on_transcript_barge_in_end
    \/ _process_turn
    \/ llm_chunk
    \/ llm_stream_end
    \/ llm_error
    \/ llm_after_stream
    \/ llm_finish
    \/ on_sentence
    \/ tts_response
    \/ tts_chunk
    \/ send_audio_done
    \/ tts_end
    \/ tts_return
    \/ after_generate
    \/ tool_done

Spec == Init /\ [][Next]_vars

\* -------------------------------------------------------------- audio_utils
\* the byte values of a mu-law stream
ULAW_BYTES == 0..255

\* the bit operations of audio_utils on non-negative integers
ShiftLeft(x, n) == x * (2 ^ n)
ShiftRight(x, n) == x \div (2 ^ n)
InvertByte(x) == 255 - x

\* _build_ulaw_table: the entry of ULAW_TO_PCM_TABLE for the byte i
ULAW_TO_PCM_TABLE(i) ==
    LET inverted == InvertByte(i)
        sign     == ShiftRight(inverted, 7) % 2 = 1
        exponent == ShiftRight(inverted, 4) % 8
        mantissa == inverted % 16
        linear   == ShiftLeft(ShiftLeft(mantissa, 3) + ULAW_BIAS, exponent) - ULAW_BIAS
    IN  IF sign THEN 0 - linear ELSE linear

\* the while loop of _pcm_to_ulaw_sample: the exponent is lowered from 7 until
\* the bit of exp_mask (0x4000 >> (7 - exponent)) is set in the biased sample
RECURSIVE FindExponent(_, _)
FindExponent(sample, exponent) ==
    IF exponent > 0 /\ ShiftRight(sample, exponent + 7) % 2 = 0
    THEN FindExponent(sample, exponent - 1)
    ELSE exponent

\* _pcm_to_ulaw_sample before the inversion: sign | (exponent << 4) | mantissa
SignExponentMantissa(sample) ==
    LET sign     == IF sample < 0 THEN 128 ELSE 0
        absolute == IF sample < 0 THEN 0 - sample ELSE sample
        clipped  == IF absolute > ULAW_CLIP THEN ULAW_CLIP ELSE absolute
        biased   == clipped + ULAW_BIAS
        exponent == FindExponent(biased, 7)
        mantissa == ShiftRight(biased, exponent + 3) % 16
    IN  sign + ShiftLeft(exponent, 4) + mantissa

\* _pcm_to_ulaw_sample without the inversion of the byte
_pcm_to_ulaw_sample_not_inverted(sample) == SignExponentMantissa(sample)

\* _pcm_to_ulaw_sample
_pcm_to_ulaw_sample(sample) == InvertByte(SignExponentMantissa(sample))

\* a mu-law byte arrives for conversion
CodecInit ==
    /\ GatewayInit
    /\ SentencesIdle
    /\ OverlapIdle
    /\ BufferIdle
    /\ VadIdle
    /\ ulaw_byte \in ULAW_BYTES
    /\ pcm_sample = 0
    /\ ulaw_encoded = 0
    /\ codec_pc = "byte"

\* ulaw_to_pcm of the byte
ulaw_to_pcm ==
    /\ codec_pc = "byte"
    /\ pcm_sample' = ULAW_TO_PCM_TABLE(ulaw_byte)
    /\ codec_pc' = "decoded"
    /\ UNCHANGED <<call_vars, vad_vars, sentence_vars, overlap_vars, buffer_vars, ulaw_byte, ulaw_encoded>>

\* pcm_to_ulaw of the sample that came out
pcm_to_ulaw ==
    /\ codec_pc = "decoded"
    /\ ulaw_encoded' = _pcm_to_ulaw_sample(pcm_sample)
    /\ codec_pc' = "encoded"
    /\ UNCHANGED <<call_vars, vad_vars, sentence_vars, overlap_vars, buffer_vars, ulaw_byte, pcm_sample>>

CodecNext ==
    \/ ulaw_to_pcm
    \/ pcm_to_ulaw

CodecSpec == CodecInit /\ [][CodecNext]_vars

\* ------------------------------------------- openai_llm sentence extraction
\* A text is a sequence of characters.  The characters followed here: two
\* letters, a sentence terminator and a blank.
Chars == {"a", "b", ".", " "}
Terminators == {".", "!", "?"}
Whitespace == {" "}

\* the content tokens of one chunk: non-empty texts of up to MaxTokenLen characters
RECURSIVE TextsOfLen(_)
TextsOfLen(n) ==
    IF n = 0 THEN {<<>>}
    ELSE {Append(t, c) : t \in TextsOfLen(n - 1), c \in Chars}
Tokens == UNION {TextsOfLen(n) : n \in 1..MaxTokenLen}

\* str.strip()
RECURSIVE lstrip(_)
lstrip(text) ==
    IF text # <<>> /\ Head(text) \in Whitespace THEN lstrip(Tail(text)) ELSE text
RECURSIVE rstrip(_)
rstrip(text) ==
    IF text # <<>> /\ text[Len(text)] \in Whitespace
    THEN rstrip(SubSeq(text, 1, Len(text) - 1))
    ELSE text
strip(text) == lstrip(rstrip(text))

\* the first sentence terminator of text at or after position p, 0 when none
FirstTerminator(text, p) ==
    LET at == {q \in p..Len(text) : text[q] \in Terminators}
    IN  IF at = {} THEN 0 ELSE CHOOSE q \in at : \A o \in at : q <= o

\* re.findall(r'([^.!?]*[.!?])(?:\s|$)', text), scanning from position p: the
\* run of non-terminators from p must end in a terminator that is followed by
\* whitespace or by the end of the text; the group is the run with the
\* terminator, the search goes on behind the whitespace; without a match at p
\* the scan moves on by one character
RECURSIVE findall(_, _)
findall(text, p) ==
    IF p > Len(text) THEN <<>>
    ELSE LET q == FirstTerminator(text, p) IN
         IF q = 0 THEN <<>>
         ELSE IF q = Len(text) \/ text[q + 1] \in Whitespace
         THEN <<SubSeq(text, p, q)>> \o findall(text, q + 2)
         ELSE findall(text, p + 1)

\* [m.strip() for m in matches if m.strip()]
RECURSIVE StripAll(_)
StripAll(matches) ==
    IF matches = <<>> THEN <<>>
    ELSE IF strip(Head(matches)) = <<>> THEN StripAll(Tail(matches))
    ELSE <<strip(Head(matches))>> \o StripAll(Tail(matches))

\* text.find(sentence, start) with 0-based offsets, -1 when not found
find(text, sentence, start) ==
    LET at == {i \in start..(Len(text) - Len(sentence)) :
                  SubSeq(text, i + 1, i + Len(sentence)) = sentence}
    IN  IF at = {} THEN 0 - 1 ELSE CHOOSE i \in at : \A o \in at : i <= o

\* the loop over complete that moves last_end behind each sentence found
RECURSIVE LastEnd(_, _, _)
LastEnd(text, complete, last_end) ==
    IF complete = <<>> THEN last_end
    ELSE LET idx == find(text, Head(complete), last_end) IN
         LastEnd(text, Tail(complete),
                 IF idx >= 0 THEN idx + Len(Head(complete)) ELSE last_end)

\* OpenAILLM._extract_sentences
_extract_sentences(text) ==
    LET complete == StripAll(findall(text, 1)) IN
    [complete   |-> complete,
     incomplete |-> IF complete # <<>>
                    THEN strip(SubSeq(text, LastEnd(text, complete, 0) + 1, Len(text)))
                    ELSE text]

\* a generation starts
SentencesInit ==
    /\ GatewayInit
    /\ CodecIdle
    /\ OverlapIdle
    /\ BufferIdle
    /\ VadIdle
    /\ llm_tokens = <<>>
    /\ llm_full_response = <<>>
    /\ llm_sentence_buffer = <<>>
    /\ llm_sentences = <<>>
    /\ llm_pc = "streaming"

\* generate_streaming lines 400-413: one content token of the stream, of a
\* stream of up to MaxTokens content tokens
stream_token ==
    /\ llm_pc = "streaming"
    /\ Len(llm_tokens) < MaxTokens
    /\ \E token \in Tokens :
          LET sentences == _extract_sentences(llm_sentence_buffer \o token)
          IN  /\ llm_tokens' = Append(llm_tokens, token)
              /\ llm_full_response' = llm_full_response \o token
              /\ llm_sentences' = llm_sentences \o sentences.complete
              /\ llm_sentence_buffer' =
                    IF sentences.complete # <<>> THEN sentences.incomplete
                    ELSE llm_sentence_buffer \o token
    /\ UNCHANGED <<call_vars, vad_vars, codec_vars, overlap_vars, buffer_vars, llm_pc>>

\* generate_streaming lines 428-429: the stream has ended, the remainder is
\* passed to on_sentence when it is more than whitespace
stream_end ==
    /\ llm_pc = "streaming"
    /\ llm_sentences' = IF strip(llm_sentence_buffer) # <<>>
                        THEN Append(llm_sentences, strip(llm_sentence_buffer))
                        ELSE llm_sentences
    /\ llm_pc' = "done"
    /\ UNCHANGED <<call_vars, vad_vars, codec_vars, overlap_vars, buffer_vars, llm_tokens, llm_full_response, llm_sentence_buffer>>

SentencesNext ==
    \/ stream_token
    \/ stream_end

SentencesSpec == SentencesInit /\ [][SentencesNext]_vars

\* ------------------------------------------ the accumulation of final texts
\* the words of the transcripts followed here: one word in two spellings that
\* differ in case, and a second word
OverlapWords == {"das", "Das", "alles"}

\* the texts of up to MaxOverlapWords words
RECURSIVE WordsOfLen(_)
WordsOfLen(n) ==
    IF n = 0 THEN {<<>>}
    ELSE {Append(t, w) : t \in WordsOfLen(n - 1), w \in OverlapWords}
OverlapTexts == UNION {WordsOfLen(n) : n \in 0..MaxOverlapWords}

\* a final transcript arrives while the gateway listens and has an utterance
OverlapInit ==
    /\ GatewayInit
    /\ CodecIdle
    /\ SentencesIdle
    /\ BufferIdle
    /\ VadIdle
    /\ utterance_before \in OverlapTexts \ {<<>>}
    /\ final_text \in OverlapTexts \ {<<>>}
    /\ utterance_after = <<>>
    /\ overlap_pc = "final_arrived"

\* _on_transcript lines 356-372 for that transcript
accumulate_final ==
    /\ overlap_pc = "final_arrived"
    /\ utterance_after' = Accumulate(utterance_before, final_text, TRUE)
    /\ overlap_pc' = "accumulated"
    /\ UNCHANGED <<call_vars, vad_vars, codec_vars, sentence_vars, buffer_vars, utterance_before, final_text>>

OverlapNext == accumulate_final

OverlapSpec == OverlapInit /\ [][OverlapNext]_vars

\* ------------------------------------------------- the short buffer alone
\* the roles a turn is added under
Roles == {"user", "assistant"}

\* a call starts with an empty short buffer (LLMContext's default)
BufferInit ==
    /\ GatewayInit
    /\ CodecIdle
    /\ SentencesIdle
    /\ OverlapIdle
    /\ VadIdle
    /\ turns_added = <<>>
    /\ context_short_buffer = <<>>

\* one call of add_turn; the n-th turn added carries n as its content
add_turn_call ==
    /\ Len(turns_added) < MaxTurnsAdded
    /\ \E role \in Roles :
          LET turn == Entry(role, "content", Len(turns_added) + 1) IN
          /\ turns_added' = Append(turns_added, turn)
          /\ context_short_buffer' = add_turn(context_short_buffer, turn)
    /\ UNCHANGED <<call_vars, vad_vars, codec_vars, sentence_vars, overlap_vars>>

BufferNext == add_turn_call

BufferSpec == BufferInit /\ [][BufferNext]_vars

\* ------------------------------------------- receive_audio, frame by frame
\* The transport task of a call whose recognizer reports nothing: the greeting
\* is played, then media frames arrive.  speech_frames_in_a_row counts the
\* frames above the threshold that arrived last, one after the other, since the
\* last reset of the gateway's counter by a barge-in.
VadInit ==
    /\ GatewayInit
    /\ CodecIdle
    /\ SentencesIdle
    /\ OverlapIdle
    /\ BufferIdle
    /\ speech_frames_in_a_row = 0

\* receive_audio on one frame, with the frames above the threshold counted
frame_received ==
    /\ \E energy \in FrameEnergies :
          /\ receive_audio_frame(energy)
          /\ IF energy > vad_threshold
             THEN /\ speech_frames_in_a_row < MaxFramesInARow
                  /\ speech_frames_in_a_row' = speech_frames_in_a_row + 1
             ELSE speech_frames_in_a_row' = 0
    /\ UNCHANGED <<codec_vars, sentence_vars, overlap_vars, buffer_vars>>

\* receive_audio resets its counter after the barge-in handler
frame_barge_in_end ==
    /\ receive_audio_resumes
    /\ speech_frames_in_a_row' = 0
    /\ UNCHANGED <<codec_vars, sentence_vars, overlap_vars, buffer_vars>>

VadNext ==
    \/ transport_start
    \/ send_initial_greeting
    \/ greeting_tts_response
    \/ greeting_tts_chunk
    \/ greeting_send_done
    \/ greeting_tts_end
    \/ greeting_done
    \/ clock_passes
    \/ frame_received
    \/ frame_barge_in_end

VadSpec == VadInit /\ [][VadNext]_vars

\* ------------------------------------------------- one turn after another
\* The recognizer task of a call over MaxTurnsInARow turns.  The transport task
\* runs the greeting, whose synthesis fails or yields no audio, and then sits in
\* its receive loop; its audio, its frames and the end of the call are followed
\* by Spec over MaxTurns turns.
TurnsInit ==
    /\ GatewayInit
    /\ CodecIdle
    /\ SentencesIdle
    /\ OverlapIdle
    /\ BufferIdle
    /\ VadIdle

\* DeepgramSTT._handle_message, type "Results" with a non-empty transcript
turns_stt_results ==
    /\ r_pc = "r_idle"
    /\ ~TRunning
    /\ \E text \in Texts, is_final \in BOOLEAN, speech_final \in BOOLEAN :
          _on_transcript_upto(text, is_final, speech_final, MaxTurnsInARow)
    /\ UNCHANGED <<llm_cancelled, short_buffer, tts_cancelled, stt_connected, turn_vars, t_pc>>
    /\ UNCHANGED <<stop_vars, transport_tags, stt_audio_sent>>
    /\ UNCHANGED pure_vars

\* DeepgramSTT._handle_message, type "UtteranceEnd"
turns_stt_utterance_end ==
    /\ r_pc = "r_idle"
    /\ ~TRunning
    /\ _on_transcript_upto(<<>>, TRUE, TRUE, MaxTurnsInARow)
    /\ UNCHANGED <<llm_cancelled, short_buffer, tts_cancelled, stt_connected, turn_vars, t_pc>>
    /\ UNCHANGED <<stop_vars, transport_tags, stt_audio_sent>>
    /\ UNCHANGED pure_vars

TurnsNext ==
    \/ transport_start
    \/ send_initial_greeting
    \/ greeting_tts_response
    \/ greeting_tts_end
    \/ greeting_done
    \/ clock_passes
    \/ turns_stt_results
    \/ turns_stt_utterance_end
    \/ end_of_turn_check
    \/ on_transcript_barge_in_end
    \/ _process_turn
    \/ llm_chunk
    \/ llm_stream_end
    \/ llm_error
    \/ llm_after_stream
    \/ llm_finish
    \/ on_sentence
    \/ tts_response
    \/ tts_chunk
    \/ send_audio_done
    \/ tts_end
    \/ tts_return
    \/ after_generate
    \/ tool_done

TurnsSpec == TurnsInit /\ [][TurnsNext]_vars
\* Every call a turn awaits comes back: the completion stream ends or fails,
\* the TTS request is answered, every write to the transport returns, the tool
\* returns, and the task goes on when it can.  The audio stream of a TTS call
\* is finite: however many chunks are written in between, it ends (strong
\* fairness, since the end cannot arrive while a write is awaited).
TurnsFairness ==
    /\ WF_vars(_process_turn)
    /\ WF_vars(end_of_turn_check)
    /\ WF_vars(llm_stream_end)
    /\ WF_vars(llm_after_stream)
    /\ WF_vars(llm_finish)
    /\ WF_vars(on_sentence)
    /\ WF_vars(tts_response)
    /\ SF_vars(tts_end)
    /\ WF_vars(send_audio_done)
    /\ WF_vars(tts_return)
    /\ WF_vars(after_generate)
    /\ WF_vars(tool_done)
    /\ WF_vars(on_transcript_barge_in_end)

TurnsLiveSpec == TurnsInit /\ [][TurnsNext]_vars /\ TurnsFairness

\* ================================================================== claims

\* ---------------------------------------------------------------------- C1
\* C1: every audio chunk written to the transport as a media frame carries the
\* turn id that is the gateway's current turn id at the moment of the write; a
\* chunk whose tag differs from the current turn id is never written.
C1_MediaFrameCarriesCurrentTurn == wire.kind = "media" => wire.tag = wire.cur

\* a chunk of turn 1 is being written while the greeting's stream (tag 0) is
\* still open
C1_Witness == wire.kind = "media" /\ wire.cur = 1 /\ t_pc = "g_wait"

\* ---------------------------------------------------------------------- C2
\* C2: after the barge-in handler has sent the clear frame, no media frame is
\* written until the next _process_turn starts, whatever the LLM and TTS
\* callbacks of the cancelled turn that are still in flight do.
C2_NoMediaFrameAfterClear == wire.kind = "media" => ~wire.after_clear

\* the barge-in has run and the TTS call of the cancelled turn is still in flight
C2_Witness ==
    /\ clear_pending /\ cancelled /\ state = "listening"
    /\ barge_in_count > 0
    /\ r_pc \in RInTts /\ my_turn_id = current_turn_id /\ my_turn_id > 0

\* ---------------------------------------------------------------------- C3
\* agent text of a turn in a log: a response or the holding phrase of the tool call
AgentTextOf(log, turn) ==
    { i \in 1..Len(log) : /\ log[i].role = "assistant"
                          /\ log[i].kind \in {"response", "fetching"}
                          /\ log[i].turn = turn }

\* the same in the transcript returned at session end
AgentLinesOf(transcript, turn) ==
    { i \in 1..Len(transcript) : /\ transcript[i].label = "Begleiter"
                                 /\ transcript[i].kind \in {"response", "fetching"}
                                 /\ transcript[i].turn = turn }

\* C3: while a turn that a barge-in has cancelled is still running, and in every
\* later state, neither the short buffer nor the full conversation (so neither
\* the final transcript) holds agent text produced during that turn.
C3_NoAgentTextOfCancelledTurn ==
    (cancelled /\ my_turn_id > 0 /\ my_turn_id = current_turn_id)
        => /\ AgentTextOf(short_buffer, my_turn_id) = {}
           /\ AgentTextOf(full_conversation, my_turn_id) = {}
           /\ AgentLinesOf(get_full_transcript(full_conversation), my_turn_id) = {}

\* ---------------------------------------------------------------------- C4
\* C4: the turn id starts at 0 and never decreases; only _process_turn changes
\* it, and every entry of _process_turn increases it by exactly one; barge-in,
\* the greeting and stop leave it unchanged.
C4_TurnIdChangedOnlyByProcessTurn ==
    /\ current_turn_id = 0
    /\ [][ /\ current_turn_id' >= current_turn_id
           /\ (current_turn_id' # current_turn_id => r_pc = "r_process_turn")
           /\ (r_pc = "r_process_turn" => current_turn_id' = current_turn_id + 1) ]_vars

\* a turn has started, a barge-in has run and stop() has returned
C4_Witness == current_turn_id = 1 /\ barge_in_count > 0 /\ t_pc = "t_done"

\* ---------------------------------------------------------------------- C5
GatewayStates == {"idle", "listening", "thinking", "speaking"}

\* the permitted transitions as the claim lists them
PermittedAsClaimed ==
    {<<"idle", "listening">>, <<"listening", "thinking">>, <<"thinking", "speaking">>,
     <<"speaking", "listening">>, <<"listening", "speaking">>}
    \cup { <<s, "idle">> : s \in GatewayStates }

\* C5 as stated: every change of the gateway state is one of the listed
\* transitions.
C5_OnlyListedTransitions ==
    [][ state' # state => <<state, state'>> \in PermittedAsClaimed ]_vars

\* C5, amended: every change of the gateway state is one of the listed
\* transitions or THINKING to LISTENING (a turn that ends without a sentence:
\* the LLM call failed, returned nothing or was cancelled).
C5_OnlyListedOrThinkingToListening ==
    [][ state' # state =>
            <<state, state'>> \in PermittedAsClaimed \cup {<<"thinking", "listening">>} ]_vars

\* a turn in THINKING whose LLM call has returned text without any sentence
\* spoken: its next step is THINKING to LISTENING
C5_Witness ==
    /\ state = "thinking" /\ r_pc = "r_after_generate"
    /\ r_result = "text" /\ ~response_text /\ ~cancelled

\* ---------------------------------------------------------------------- C6
\* C6: the barge-in handler is invoked, by whichever detection path, only when
\* audio_sent_count, the gateway's count of the chunks sent in the current
\* turn, is at least min_audio_before_bargein.
C6_NoBargeInBelowMargin ==
    [][ barge_in_count' # barge_in_count
            => audio_sent_count >= min_audio_before_bargein ]_vars

\* the handler runs, invoked by the local VAD at exactly the margin
C6_Witness ==
    /\ t_pc = "t_bargein" /\ barge_in_count > 0
    /\ audio_sent_count = min_audio_before_bargein

\* ---------------------------------------------------------------------- C7
\* an LLM call is awaiting its stream, or a sentence callback it awaits
LLMInProgress ==
    \/ r_pc = "r_llm"
    \/ r_pc \in RInTts /\ r_tts_for \in {"sentence", "remainder"}

\* a synthesize call of the turn is awaiting its stream or a chunk callback
TTSInProgress == r_pc \in RInTts

C8_FillerStartsNoTurn ==
    [][ (r_pc = "r_speech_final" /\ IsFiller(current_utterance))
            => /\ state = "listening" /\ state' = "listening"
               /\ r_pc' = "r_idle"
               /\ current_turn_id' = current_turn_id
               /\ current_utterance' = current_utterance ]_vars

\* the end-of-turn check is reached with the accumulator holding "Und."
C8_Witness ==
    r_pc = "r_speech_final" /\ current_utterance = <<"Und.">> /\ state = "listening"

\* ---------------------------------------------------------------------- C9
\* some word of the utterance is no filler
HasNonFillerWord(utt) ==
    \E i \in 1..Len(utt) : RstripPunct(Lower(utt[i])) \notin FILLER_WORDS

C10_SpeechStartedBargesIn ==
    [][ (/\ r_pc = "r_speech_started"
         /\ state = "listening"
         /\ audio_still_playing
         /\ audio_sent_count >= min_audio_before_bargein)
            => barge_in_count' = barge_in_count + 1 ]_vars

\* --------------------------------------------------------------------- C11
\* the entries the short buffer holds from the caller utterance of a turn on
EntriesSinceUtterance(buf, turn) ==
    LET at == { i \in 1..Len(buf) : buf[i] = Entry("user", "utterance", turn) }
    IN  IF at = {} THEN <<>> ELSE SubSeq(buf, MaxOf(at), Len(buf))

Stopped == t_pc \in {"t_finish", "t_await_r", "t_done"}

\* the transcript ends with the caller utterance of a turn and holds no agent
\* text of that turn
EndsWithCallerUtterance(transcript) ==
    /\ transcript # <<>>
    /\ transcript[Len(transcript)].label = "Anrufer"
    /\ transcript[Len(transcript)].kind = "utterance"
    /\ AgentLinesOf(transcript, transcript[Len(transcript)].turn) = {}

\* C12, the transcript: when the stop arrives while a turn is in THINKING,
\* get_full_transcript returns the conversation ending with that turn's caller
\* utterance, with no agent text for it.
C12_TranscriptAtStopInThinking ==
    (Stopped /\ state_at_stop = "thinking") => EndsWithCallerUtterance(full_transcript)

\* C12: when the stop arrives while a turn is in THINKING, no audio chunk is
\* written to the transport after the stop, and the transcript is as above.
C12_StopInThinkingNoAudio ==
    (Stopped /\ state_at_stop = "thinking")
        => /\ wire.kind # "media"
           /\ EndsWithCallerUtterance(full_transcript)

\* --------------------------------------------------------------------- C13
\* the LLM call of the running turn fails: its "except Exception" returns ""
LLMFails == r_pc = "r_llm" /\ r_pc' = "r_after_generate"

\* what holds of every failure: the call adds nothing to the short buffer, which
\* holds no agent text of the turn, and the turn then ends in LISTENING with
\* nothing added and nothing written
FailedTurnEndsInListening ==
    /\ [][ LLMFails => /\ short_buffer' = short_buffer
                       /\ AgentTextOf(short_buffer, my_turn_id) = {} ]_vars
    /\ [][ (r_pc = "r_after_generate" /\ r_result = "text")
              => /\ state' = "listening"
                 /\ r_pc' = "r_idle"
                 /\ short_buffer' = short_buffer
                 /\ transport_tags' = transport_tags ]_vars

TTSCallEnds ==
    /\ r_pc \in {"r_tts_post", "r_tts_wait"} /\ r_pc' = "r_tts_ret"
    /\ t_pc' = t_pc

\* C14: when the synthesis of one sentence fails, no further chunk of that
\* sentence is written (the call has returned, and the return writes nothing),
\* the LLM call goes on where it would after a successful synthesis, a later
\* sentence of a turn that is not stale is synthesized all the same, and the
\* turn ends as a turn that was not cancelled: the response is recorded in the
\* short buffer and in the full conversation and the state is LISTENING.
C14_TTSFailureSkipsOneSentence ==
    /\ [][ (TTSCallEnds /\ r_tts_for \in {"sentence", "remainder"})
              => UNCHANGED <<gw_vars, client_vars, turn_vars, transport_tags>> ]_vars
    /\ [][ (r_pc = "r_tts_ret" /\ r_tts_for \in {"sentence", "remainder"})
              => /\ r_pc' = IF r_tts_for = "sentence" THEN "r_llm" ELSE "r_llm_finish"
                 /\ UNCHANGED <<gw_vars, client_vars, turn_vars, io_vars, transport_tags>> ]_vars
    /\ [][ (r_pc = "r_on_sentence" /\ ~TurnStale(my_turn_id))
              => r_pc' = "r_tts_post" /\ state' = "speaking" /\ response_text' ]_vars
    /\ [][ (r_pc = "r_llm_finish" /\ full_response /\ ~llm_cancelled)
              => /\ short_buffer' # <<>>
                 /\ short_buffer'[Len(short_buffer')]
                      = Entry("assistant", "response", my_turn_id) ]_vars
    /\ [][ (r_pc = "r_after_generate" /\ r_result = "text"
              /\ ~TurnStale(my_turn_id) /\ response_text)
              => /\ state' = "listening"
                 /\ full_conversation'
                      = Append(full_conversation,
                               Entry("assistant", "response", my_turn_id)) ]_vars

\* the first sentence of turn 1 brought no audio (its synthesis failed) and the
\* rest of the response is being synthesized
C14_Witness ==
    /\ r_pc = "r_tts_wait" /\ r_tts_for = "remainder" /\ sentences_emitted = 2
    /\ my_turn_id = 1 /\ ~TurnStale(my_turn_id)
    /\ 1 \notin transport_tags /\ state = "speaking"

\* --------------------------------------------------------------------- C15
\* C15: a malformed inbound message (invalid JSON, or a media payload that is
\* no valid base64) is dropped and the session continues: the receive loop goes
\* on with the next frame and the gateway is not stopped.
C15_MalformedMessageDropped ==
    [][ t_pc = "t_malformed"
            => /\ t_pc' = "t_loop"
               /\ UNCHANGED <<gw_vars, client_vars, io_vars, turn_vars, r_pc>> ]_vars

\* --------------------------------------------------------------------- C16
\* the recognizer's receive loop ends on a lost connection
ConnectionLost == r_pc = "r_idle" /\ r_pc' = "r_closed"

ToolExecutionEnds ==
    /\ \/ r_pc = "r_tts_ret" /\ r_tts_for = "fetching"
       \/ r_pc = "r_tool"
    /\ r_pc' # "r_tool"
    /\ t_pc' = t_pc

\* C17: tool execution always yields a string and never raises into the turn:
\* whatever tool call the model asked for and whatever the fetch comes to, a
\* turn that is still the current one goes on with the second LLM call
\* (generate_with_tool_result) once execute_tool has ended.
C17_ToolExecutionYieldsString ==
    [][ (ToolExecutionEnds /\ ~TurnStale(my_turn_id))
          => (r_pc' = "r_llm" /\ r_gen' = "tool" /\ my_turn_id' = my_turn_id) ]_vars


\* ------------------------------------------------------------------- C18
\* the conversion has gone through both directions
RoundTripDone == codec_pc = "encoded"

\* C18 as stated: for every mu-law byte b in 0..255, encoding the PCM sample
\* obtained by decoding b gives b again.
C18_EncodeDecodeIdentity ==
    RoundTripDone => ulaw_encoded = ulaw_byte

\* C18, amended: for every mu-law byte b in 0..255 other than 0x7F, encoding
\* the PCM sample obtained by decoding b gives b again; 0x7F, the second code
\* of the sample 0, decodes to 0, and 0 encodes to 0xFF.
C18_EncodeDecodeIdentityButNegativeZero ==
    RoundTripDone =>
        /\ ulaw_byte # 127 => ulaw_encoded = ulaw_byte
        /\ ulaw_byte = 127 => pcm_sample = 0 /\ ulaw_encoded = 255

\* the loudest negative sample has gone through both directions
C18_Witness ==
    /\ RoundTripDone
    /\ ulaw_byte = 0
    /\ pcm_sample = 0 - 32124
    /\ ulaw_encoded = 0


\* ------------------------------------------------------------------- C19
\* the characters of a text that are no whitespace, in order
RECURSIVE NonWhitespace(_)
NonWhitespace(text) ==
    IF text = <<>> THEN <<>>
    ELSE IF Head(text) \in Whitespace THEN NonWhitespace(Tail(text))
    ELSE <<Head(text)>> \o NonWhitespace(Tail(text))

\* the sentences passed to on_sentence, one after the other
RECURSIVE Joined(_)
Joined(sentences) ==
    IF sentences = <<>> THEN <<>> ELSE Head(sentences) \o Joined(Tail(sentences))

\* C19: for any token stream of a generation that is not cancelled, the
\* sentences passed to on_sentence, taken in order, contain every
\* non-whitespace character of the streamed text exactly once and in stream
\* order, the remainder at stream end included.
C19_SentencesCarryEveryCharacter ==
    llm_pc = "done" =>
        NonWhitespace(Joined(llm_sentences)) = NonWhitespace(llm_full_response)


\* ------------------------------------------------------------------- C20
\* the last k words of the utterance equal, ignoring case, the first k words
\* of the final text
OverlapsBy(k) ==
    /\ k <= Len(utterance_before)
    /\ k <= Len(final_text)
    /\ \A i \in 1..k :
          Lower(utterance_before[Len(utterance_before) - k + i]) = Lower(final_text[i])

\* the final text without its first k words
WithoutFirst(k) == SubSeq(final_text, k + 1, Len(final_text))

\* C20: when a final transcript arrives in LISTENING with a non-empty
\* accumulator, the longest k in 1..3 for which the last k words of the
\* accumulator equal, ignoring case, the first k words of the new text is
\* found and those k words are removed from the new text before it is
\* appended; with no such k the new text is appended whole, and when nothing
\* remains the accumulator is unchanged.
C20_LongestOverlapRemoved ==
    overlap_pc = "accumulated" =>
        /\ \A k \in 1..3 :
              (OverlapsBy(k) /\ \A j \in (k + 1)..3 : ~OverlapsBy(j))
                 => /\ utterance_after = utterance_before \o WithoutFirst(k)
                    /\ (WithoutFirst(k) = <<>> => utterance_after = utterance_before)
        /\ (\A k \in 1..3 : ~OverlapsBy(k))
              => utterance_after = utterance_before \o final_text

\* an overlap of three words, with a shorter overlap of one word beside it,
\* has been removed
C20_Witness ==
    /\ overlap_pc = "accumulated"
    /\ utterance_before = <<"das", "alles", "das">>
    /\ final_text = <<"Das", "alles", "Das", "alles">>
    /\ OverlapsBy(3)
    /\ OverlapsBy(1)
    /\ utterance_after = <<"das", "alles", "das", "alles">>


\* ------------------------------------------------------------------- C21
\* the last n entries of a sequence (all of it when it is shorter)
LastTurns(turns, n) ==
    IF Len(turns) <= n THEN turns ELSE SubSeq(turns, Len(turns) - n + 1, Len(turns))

\* C21: after any sequence of add_turn calls the short buffer holds at most
\* max_buffer_turns (6) entries, and they are exactly the most recently added
\* turns in the order they were added.
C21_ShortBufferHoldsMostRecentTurns ==
    /\ Len(context_short_buffer) <= 6
    /\ context_short_buffer = LastTurns(turns_added, 6)

\* eight turns were added: the buffer starts with the third
C21_Witness ==
    /\ Len(turns_added) = 8
    /\ Len(context_short_buffer) = 6
    /\ context_short_buffer[1] = turns_added[3]
    /\ context_short_buffer[6] = turns_added[8]


\* ------------------------------------------------------------------- C22
\* C22: after stop() returns the gateway state is IDLE, whatever state it was
\* in when stop was called.
C22_IdleAfterStop ==
    t_pc = "t_done" => state = "idle"


\* ------------------------------------------------------------------- C23
\* the tool-call subroutine of the running turn: from the return of the
\* ToolCallRequest to the end of generate_with_tool_result
InToolSubroutine == r_result = "tool" \/ r_gen = "tool"

\* the synthesize call for the holding phrase has returned
HoldingPhraseSynthesized == r_pc = "r_tts_ret" /\ r_tts_for = "fetching"

\* C23: when the LLM returns a ToolCallRequest, the holding phrase is
\* synthesized before the tool is executed, the tool is executed before
\* continue_with_tool_result (generate_with_tool_result) is called, and every
\* audio chunk of the subroutine is tagged with the turn id of the enclosing
\* turn.
C23_ToolSubroutineInOrder ==
    [][ /\ (r_pc = "r_after_generate" /\ r_result = "tool" /\ ~TurnStale(my_turn_id))
            => (r_pc' = "r_tts_post" /\ r_tts_for' = "fetching")
        /\ (r_pc # "r_tool" /\ r_pc' = "r_tool") => HoldingPhraseSynthesized
        /\ (r_gen # "tool" /\ r_gen' = "tool")
            => /\ r_result = "tool"
               /\ r_pc = "r_tool" \/ HoldingPhraseSynthesized
               /\ my_turn_id' = my_turn_id
        /\ (InToolSubroutine /\ wire' # wire /\ wire'.kind = "media")
            => /\ wire'.tag = my_turn_id
               /\ my_turn_id = current_turn_id
               /\ my_turn_id > 0 ]_vars

\* a chunk of the answer that follows the tool result is being written, after
\* the holding phrase was spoken
C23_Witness ==
    /\ r_gen = "tool"
    /\ r_pc = "r_tts_send"
    /\ wire.kind = "media"
    /\ wire.tag = my_turn_id
    /\ my_turn_id = 1
    /\ \E i \in 1..Len(full_conversation) : full_conversation[i].kind = "fetching"
    /\ audio_sent_count > 1


\* ------------------------------------------------------------------- C24
\* a step of the recognizer task, in which the turn runs
TurnStep == r_pc' # r_pc /\ t_pc' = t_pc

\* C24: within a turn, sentences reach TTS in the order the LLM emitted them
\* (each sentence goes to its synthesize call before the LLM call reads on, the
\* remainder last), the chunks of one sentence reach the transport in the
\* order TTS produced them (a chunk is taken from the stream only after the
\* write of the one before has returned), and no chunk of sentence n+1 is
\* delivered before the synthesize call for sentence n has returned.
C24_SentencesAndChunksInOrder ==
    [][ /\ sentences_emitted' > sentences_emitted
            => /\ sentences_emitted' = sentences_emitted + 1
               /\ r_pc \in {"r_llm", "r_stream_end"}
               /\ r_pc' = "r_on_sentence"
        /\ (r_pc = "r_on_sentence" /\ ~TurnStale(my_turn_id))
            => (r_pc' = "r_tts_post" /\ sentences_emitted' = sentences_emitted)
        /\ (r_pc \in RInTts /\ TurnStep)
            => /\ r_pc' \in RInTts \cup {"r_tts_ret"}
               /\ sentences_emitted' = sentences_emitted
               /\ r_tts_for' = r_tts_for
        /\ (TurnStep /\ my_turn_id > 0 /\ wire' # wire /\ wire'.kind = "media")
            => /\ r_pc = "r_tts_wait"
               /\ r_pc' = "r_tts_send"
               /\ wire'.tag = my_turn_id
        /\ (r_pc = "r_tts_send" /\ TurnStep)
            => (r_pc' = "r_tts_wait" /\ wire' = NoFrame)
        /\ (r_pc = "r_tts_ret" /\ r_tts_for = "remainder")
            => r_pc' = "r_llm_finish" ]_vars

\* a chunk of the second sentence of turn 1 is being written
C24_Witness ==
    /\ my_turn_id = 1
    /\ sentences_emitted = 2
    /\ r_tts_for = "remainder"
    /\ r_pc = "r_tts_send"
    /\ wire.kind = "media"
    /\ wire.tag = 1
    /\ audio_sent_count > 1


\* ------------------------------------------------------------------- C25
\* generate_streaming has just returned a ToolCallRequest
ToolCallRequestReturned ==
    r_pc = "r_after_generate" /\ r_gen = "first" /\ r_result = "tool"

\* C25: whenever generate returns a ToolCallRequest, on_sentence has not been
\* invoked during that call, so no audio chunk of the turn has been delivered
\* at that point.
C25_NoSentenceBeforeToolCallRequest ==
    ToolCallRequestReturned =>
        /\ sentences_emitted = 0
        /\ my_turn_id \notin transport_tags


\* ------------------------------------------------------------------- C26
\* _handle_barge_in is entered (first half, up to the await of on_clear_audio)
BargeInBegins ==
    \/ t_pc # "t_bargein" /\ t_pc' = "t_bargein"
    \/ r_pc \notin {"r_bargein", "r_bargein_sf"} /\ r_pc' \in {"r_bargein", "r_bargein_sf"}

\* _handle_barge_in returns to receive_audio or to _on_transcript
BargeInReturns ==
    \/ t_pc = "t_bargein" /\ t_pc' = "t_loop"
    \/ r_pc \in {"r_bargein", "r_bargein_sf"} /\ r_pc' # r_pc /\ t_pc' = t_pc

\* C26: when _handle_barge_in returns, the cancellation flag is set,
\* audio_playing_until is 0, exactly one clear frame has been sent to the
\* transport, cancel has been called on both the LLM and the TTS client, and
\* the state is LISTENING; the flag is set before the clear frame is sent.
C26_BargeInHandlerPostcondition ==
    [][ /\ BargeInReturns
            => /\ cancelled'
               /\ audio_playing_until' = 0
               /\ llm_cancelled'
               /\ tts_cancelled'
               /\ state' = "listening"
        /\ (wire'.kind = "clear" /\ wire' # wire) => (BargeInBegins /\ cancelled')
        /\ BargeInBegins => (wire'.kind = "clear" /\ cancelled') ]_vars


\* ------------------------------------------------------------------- C27
\* barge-in is permitted on the inbound frame: state SPEAKING or the clock
\* before audio_playing_until, and at least the minimum of audio sent
BargeInPermitted ==
    /\ state = "speaking" \/ (audio_playing_until = 1 /\ ~wall_clock_passed)
    /\ audio_sent_count >= 20

\* receive_audio invokes _handle_barge_in
VadInvokesHandler == t_pc = "t_loop" /\ t_pc' = "t_bargein"

\* C27: the local VAD path invokes the barge-in handler exactly when barge-in
\* is permitted on the current inbound frame and that frame brings the counter
\* of consecutive above-threshold frames to 3; after the handler runs the
\* counter is 0.
C27_VadInvokesHandlerAtThreeFrames ==
    [][ /\ VadInvokesHandler
            => /\ BargeInPermitted
               /\ consecutive_speech_frames = 2
               /\ consecutive_speech_frames' = 3
        /\ (t_pc = "t_loop" /\ t_pc' \in {"t_loop", "t_bargein"}
               /\ consecutive_speech_frames' > consecutive_speech_frames)
            => /\ BargeInPermitted
               /\ consecutive_speech_frames' = consecutive_speech_frames + 1
               /\ consecutive_speech_frames' = 3 <=> VadInvokesHandler
        /\ (t_pc = "t_bargein" /\ t_pc' = "t_loop") => consecutive_speech_frames' = 0
        /\ consecutive_speech_frames' <= 3 ]_vars

\* the third loud frame has invoked the handler, which awaits the clear frame
C27_Witness ==
    /\ t_pc = "t_bargein"
    /\ consecutive_speech_frames = 3
    /\ cancelled
    /\ wire.kind = "clear"
    /\ audio_sent_count >= 20


\* ------------------------------------------------------------------- C28
\* C28: consecutive_speech_frames is incremented on every inbound frame whose
\* RMS exceeds the threshold and reset to zero on every other frame, so between
\* resets by a barge-in or a turn start it equals the number of most recent
\* consecutive above-threshold frames.
C28_CounterIsFramesInARow ==
    t_pc \in {"t_loop", "t_bargein"}
        => consecutive_speech_frames = speech_frames_in_a_row


\* ------------------------------------------------------------------- C29
\* _on_transcript takes its barge-in branch on a Transcript with text
TranscriptBargeInBegins ==
    /\ r_pc = "r_idle"
    /\ r_pc' \in {"r_bargein", "r_bargein_sf"}
    /\ barge_in_text' \in Texts

\* the handler called by _on_transcript returns
TranscriptBargeInReturns == r_pc \in {"r_bargein", "r_bargein_sf"} /\ r_pc' = "r_idle"

\* C29: a Transcript with non-empty text that arrives while the state is
\* SPEAKING triggers a barge-in, and when the handler returns the utterance
\* accumulator equals that text and the staging buffer is empty, so the text is
\* the start of the next caller utterance.  The handler is entered with the
\* event's text in the staging buffer; at its return the accumulator holds a
\* Transcript's text, the one staged, and the staging buffer is empty.
C29_BargeInTextStartsNextUtterance ==
    [][ /\ TranscriptBargeInBegins => barge_in_text' # <<>>
        /\ TranscriptBargeInReturns =>
              /\ current_utterance' \in Texts
              /\ current_utterance' = barge_in_text
              /\ barge_in_text' = <<>> ]_vars


\* ------------------------------------------------------------------- C30
\* an LLM call (generate_streaming or generate_with_tool_result) is under way:
\* in its stream loop, past it, or inside an on_sentence it awaits
InGeneration ==
    \/ r_pc \in {"r_llm", "r_stream_end", "r_llm_finish", "r_on_sentence"}
    \/ /\ r_pc \in {"r_tts_post", "r_tts_wait", "r_tts_send", "r_tts_ret"}
       /\ r_tts_for \in {"sentence", "remainder"}

\* _handle_barge_in calls llm.cancel() after its await
CancelCalled ==
    \/ t_pc = "t_bargein" /\ t_pc' = "t_loop"
    \/ r_pc \in {"r_bargein", "r_bargein_sf"} /\ r_pc' = "r_idle"

\* the short buffer has received the response of the turn under way
ResponseAdded ==
    /\ short_buffer' # short_buffer
    /\ short_buffer' # <<>>
    /\ short_buffer'[Len(short_buffer')] = Entry("assistant", "response", my_turn_id)

\* C30: after cancel() is called on the LLM client during a generation, that
\* generation invokes on_sentence no more and does not add its response to the
\* short buffer; calling cancel() again changes nothing.  The flag is cleared
\* only where a generation begins, so a flag found set during a generation was
\* set by a cancel() during it, and it stays set until the generation is over.
C30_CancelledGenerationIsSilent ==
    [][ /\ (InGeneration /\ llm_cancelled) =>
              /\ sentences_emitted' <= sentences_emitted
              /\ ~ResponseAdded
              /\ InGeneration' => llm_cancelled'
        /\ (CancelCalled /\ llm_cancelled) =>
              /\ llm_cancelled'
              /\ short_buffer' = short_buffer
              /\ sentences_emitted' = sentences_emitted ]_vars

\* a cancelled generation is past its stream loop with a remainder it did not
\* pass to on_sentence and a response it does not record; two barge-ins have
\* called cancel()
C30_Witness ==
    /\ r_pc = "r_llm_finish"
    /\ llm_cancelled
    /\ full_response
    /\ sentence_buffer
    /\ barge_in_count = 2


\* ------------------------------------------------------------------- C31
\* the synthesize call of the greeting is in its stream loop: it waits for a
\* chunk, or for the on_chunk it has invoked
GreetingSynthesis == t_pc \in {"g_wait", "g_send"}

\* a synthesize call of a turn is in its stream loop
TurnSynthesis == r_pc \in {"r_tts_wait", "r_tts_send"}

TurnStarts == r_pc = "r_process_turn" /\ r_pc' = "r_llm"

\* a turn is under way and none of its audio has been written so far
TurnBeforeItsAudio ==
    /\ my_turn_id = current_turn_id
    /\ my_turn_id > 0
    /\ my_turn_id \notin transport_tags

TurnInProgress == my_turn_id # 0

\* C33: at most one _process_turn execution is in progress at any time: a new
\* turn cannot start, and so cannot clear the cancellation flag or reset the
\* counters, until the previous turn's _process_turn and all of its LLM and TTS
\* callbacks have returned.  A turn starts only from the receive loop's own
\* call chain with no _process_turn in progress and no LLM or TTS call under
\* way, and only a turn's start raises the turn id, clears the gateway's flag
\* or takes audio_sent_count down.
C33_OneTurnAtATime ==
    [][ /\ TurnStarts =>
              /\ ~TurnInProgress
              /\ r_gen = "none"
              /\ r_tts_for = "none"
              /\ TurnInProgress'
              /\ my_turn_id' = current_turn_id + 1
        /\ current_turn_id' # current_turn_id => TurnStarts
        /\ (cancelled /\ ~cancelled') => TurnStarts
        /\ audio_sent_count' < audio_sent_count => TurnStarts
        /\ (TurnInProgress /\ TurnInProgress') => my_turn_id' = my_turn_id ]_vars

\* a second turn is under way after the first was cut off by a barge-in
C33_Witness ==
    /\ my_turn_id = 2
    /\ current_turn_id = 2
    /\ barge_in_count > 0
    /\ r_pc = "r_tts_send"


\* ------------------------------------------------------------------- C34
\* a barge-in has run to its end and no turn has started since: the flag is
\* set, which only _handle_barge_in does, it has not been cleared, which only
\* the start of a turn does, and no handler is still awaiting its clear frame
BargedIn ==
    /\ cancelled
    /\ t_pc # "t_bargein"
    /\ r_pc \notin {"r_bargein", "r_bargein_sf"}

\* C34: a barge-in cannot be overwritten by the turn it cancels: once a
\* barge-in has set the state to LISTENING, the cancelled turn never sets the
\* state to THINKING or SPEAKING, and the state stays LISTENING until the next
\* _process_turn or stop.
C34_BargeInNotOverwritten ==
    [][ /\ BargedIn' => state' = "listening"
        /\ (BargedIn /\ state' # state) => TurnStarts ]_vars

\* the cancelled turn has got a ToolCallRequest from its LLM call after the
\* barge-in and stands where the holding phrase would set SPEAKING
C34_Witness ==
    /\ BargedIn
    /\ r_pc = "r_after_generate"
    /\ r_result = "tool"
    /\ my_turn_id = current_turn_id
    /\ state = "listening"


\* ------------------------------------------------------------------- C35
\* a barge-in handler is entered, from receive_audio or from _on_transcript
HandlerBegins ==
    \/ t_pc = "t_loop" /\ t_pc' = "t_bargein"
    \/ r_pc = "r_idle" /\ r_pc' \in {"r_bargein", "r_bargein_sf"}

\* C35: between the end of a barge-in and the start of the next turn,
\* audio_playing_until stays 0 and the state is never SPEAKING, so barge-in is
\* not permitted again and one interrupted turn causes exactly one barge-in
\* handler run; a chunk send that was in flight when the barge-in ran does not
\* move audio_playing_until back into the future.
C35_OneBargeInPerInterruptedTurn ==
    [][ /\ BargedIn' =>
              /\ audio_playing_until' = 0
              /\ state' # "speaking"
              /\ ~can_bargein'
        /\ BargedIn => ~HandlerBegins ]_vars


\* ------------------------------------------------------------------- C36
\* C36: caller text that has been appended to the utterance accumulator is
\* removed only when _process_turn consumes it: no barge-in, by whichever
\* detection path, clears or overwrites a non-empty accumulator.  Every step
\* that finds text in the accumulator either starts the turn that takes it or
\* leaves that text at the accumulator's head.
C36_AccumulatorOnlyConsumedByTurn ==
    [][ current_utterance # <<>> =>
          \/ TurnStarts /\ user_text' = current_utterance
          \/ /\ Len(current_utterance') >= Len(current_utterance)
             /\ SubSeq(current_utterance', 1, Len(current_utterance)) = current_utterance
      ]_vars


\* ------------------------------------------------------------------- C37
\* the messages generate_streaming sends for the turn that has just started:
\* built from the short buffer as _process_turn left it and from its user_text
MessagesOfTurn ==
    _build_messages(short_buffer', Entry("user", "utterance", my_turn_id'))

\* how often the turn's caller utterance occurs in those messages
UtteranceOccurrences ==
    Cardinality({i \in DOMAIN MessagesOfTurn :
                    MessagesOfTurn[i] = Entry("user", "utterance", my_turn_id')})

\* C37: the message sequence sent to the LLM for a turn is system message,
\* synthetic caller preamble, synthetic agent acknowledgment, the short-buffer
\* turns, then the current caller utterance, and the current caller utterance
\* occurs in it exactly once, as the last message.
C37_UtteranceOnceAsLastMessage ==
    [][ TurnStarts =>
          /\ MessagesOfTurn[1].role = "system"
          /\ MessagesOfTurn[2] = Entry("user", "preamble", 0)
          /\ MessagesOfTurn[3] = Entry("assistant", "acknowledgment", 0)
          /\ MessagesOfTurn[Len(MessagesOfTurn)] = Entry("user", "utterance", my_turn_id')
          /\ UtteranceOccurrences = 1 ]_vars


\* ------------------------------------------------------------------- C38
IsUtterance(e) == e.kind = "utterance"

\* the caller utterances of a conversation, in its order
Utterances(conversation) == SelectSeq(conversation, IsUtterance)

\* C38: every caller utterance that started a turn appears in the full
\* conversation exactly once, in turn order, whether or not the turn was later
\* cancelled or failed; entries of the full conversation are never removed or
\* reordered.
C38_EveryUtteranceOnceInTurnOrder ==
    [][ /\ Len(Utterances(full_conversation')) = current_turn_id'
        /\ \A i \in 1..current_turn_id' :
              Utterances(full_conversation')[i] = Entry("user", "utterance", i)
        /\ Len(full_conversation') >= Len(full_conversation)
        /\ SubSeq(full_conversation', 1, Len(full_conversation)) = full_conversation
      ]_vars

\* the second turn has started after the first was cut off by a barge-in and
\* left no response in the conversation
C38_Witness ==
    /\ current_turn_id = 2
    /\ barge_in_count > 0
    /\ Utterances(full_conversation) =
          <<Entry("user", "utterance", 1), Entry("user", "utterance", 2)>>
    /\ \A i \in DOMAIN full_conversation : full_conversation[i].kind # "response"


SpeechFinalOnEmpty ==
    /\ r_pc = "r_speech_final"
    /\ state = "listening"
    /\ current_utterance = <<>>

\* the reception of such an event: the step from the receive loop to the check
SpeechFinalOnEmptyReceived ==
    /\ r_pc = "r_idle"
    /\ state = "listening"
    /\ current_utterance = <<>>
    /\ r_pc' = "r_speech_final"
    /\ current_utterance' = <<>>

\* C40: a speech_final event received in LISTENING while the utterance
\* accumulator is empty starts no turn: _process_turn is not entered, and the
\* turn id, the state, the short buffer and the full conversation are all left
\* unchanged, by the reception of the event and by its end-of-turn check.
C40_SpeechFinalOnEmptyStartsNoTurn ==
    [][ /\ SpeechFinalOnEmptyReceived =>
              UNCHANGED <<current_turn_id, state, short_buffer, full_conversation>>
        /\ SpeechFinalOnEmpty =>
              /\ r_pc' = "r_idle"
              /\ my_turn_id' = 0
              /\ UNCHANGED <<current_turn_id, state, short_buffer, full_conversation>>
      ]_vars

\* after a first turn, a speech_final event arrives with nothing accumulated
C40_Witness ==
    /\ SpeechFinalOnEmpty
    /\ current_turn_id = 1
    /\ my_turn_id = 0
    /\ Len(short_buffer) >= 2

=============================================================================
